---------------------------- MODULE Spec2Model ----------------------------
(***************************************************************************)
(* A model of slk: the hand-written JSON decoder (src/src/json.rs), the    *)
(* OAuth login flow with its one-shot HTTPS callback listener              *)
(* (src/src/oauth.rs), the extraction of messages, conversations and user  *)
(* names from API responses (src/src/message.rs), the parsing of thread    *)
(* URLs (src/src/url.rs) and the stored token (src/src/config.rs).         *)
(*                                                                         *)
(* Text is modelled as the program sees it.  A byte buffer (&[u8]) is a    *)
(* sequence of numbers 0..255; a Rust String is the sequence of its        *)
(* Unicode code points.  Positions are 0-based as in the source, so the    *)
(* byte at cursor pos is input[pos + 1].                                   *)
(***************************************************************************)
EXTENDS Integers, Sequences, FiniteSets, TLC

VARIABLES
    overflow_checks, \* build profile: TRUE when integer overflow panics (debug)
    input,           \* json: the text handed to parse
    label,           \* json: how the text was written (what it is meant to hold)
    parsed,          \* json: what parse returned for input
    lookup_key,      \* json: the key a caller looked up in the parsed value
    looked_up,       \* json: what JsonValue::get returned for lookup_key
    reparsed,        \* json: what parse returned for the value written back as text
    raw_json,        \* message: an API response body and what it holds
    called,          \* message: the function applied to the parsed response
    extracted,       \* message: what that function returned
    slack_url,       \* url: the text handed to parse_slack_url and its segments
    thread,          \* url: what parse_slack_url returned
    credentials,     \* config: the file <config_dir>/credentials
    saved,           \* config: the last save_token call and its result
    loaded,          \* config: the last load_token result
    last_op,         \* config: the last operation on the credentials file
    ops,             \* config: operations on the credentials file so far
    pc,              \* oauth: position inside run_login and run_oauth_flow
    state,           \* oauth: the CSRF token of this attempt
    listener,        \* oauth: the TcpListener of wait_for_callback
    browser,         \* oauth: the authorization URL was printed and xdg-open spawned
    discarded,       \* oauth: connections dropped by the accept loop
    client,          \* oauth: what the peer of the last accepted connection sent
    conn,            \* oauth: the bytes read from that connection
    request,         \* oauth: the String wait_for_callback returned
    responded,       \* oauth: requests answered with the success page
    params,          \* oauth: what extract_callback_params returned
    exchanged,       \* oauth: the codes exchange_code was called with
    curl,            \* oauth: what the curl child process produced
    result,          \* oauth: what run_oauth_flow returned
    parser,          \* json: the Parser of a parse in progress, loop by loop
    unix_ts,         \* message: the text handed to format_unix_ts
    formatted        \* message: what format_unix_ts returned

vars == <<overflow_checks, input, label, parsed, lookup_key, looked_up,
          reparsed, raw_json, called,
          extracted, slack_url, thread, credentials, saved, loaded, last_op, ops,
          pc, state, listener, browser, discarded, client, conn, request,
          responded, params, exchanged, curl, result, parser, unix_ts,
          formatted>>

jsonVars == <<input, label, parsed, lookup_key, looked_up, reparsed>>

messageVars == <<raw_json, called, extracted>>

urlVars == <<slack_url, thread>>

configVars == <<credentials, saved, loaded, last_op, ops>>

\* What run_oauth_flow and json::parse never touch.
stepVars == <<parser>>

timeVars == <<unix_ts, formatted>>

cliVars == <<messageVars, urlVars, configVars, stepVars, timeVars>>

oauthVars == <<pc, state, listener, browser, discarded, client, conn, request,
               responded, params, exchanged, curl, result>>

---------------------------------------------------------------------------
(* Bytes and text.                                                         *)

\* The printable ASCII characters, in code order from 32 (space) to 126 (~);
\* the grave accent (96) is written by name.
Printable ==
    <<" ", "!", "\"", "#", "$", "%", "&", "'", "(", ")", "*", "+", ",", "-",
      ".", "/", "0", "1", "2", "3", "4", "5", "6", "7", "8", "9", ":", ";",
      "<", "=", ">", "?", "@", "A", "B", "C", "D", "E", "F", "G", "H", "I",
      "J", "K", "L", "M", "N", "O", "P", "Q", "R", "S", "T", "U", "V", "W",
      "X", "Y", "Z", "[", "\\", "]", "^", "_", "grave", "a", "b", "c", "d", "e",
      "f", "g", "h", "i", "j", "k", "l", "m", "n", "o", "p", "q", "r", "s",
      "t", "u", "v", "w", "x", "y", "z", "{", "|", "}", "~">>

\* The byte of a character literal (b'x' in the source).
Ascii ==
    [c \in {Printable[i] : i \in 1..Len(Printable)} \cup {"\t", "\n", "\r"} |->
        CASE c = "\t" -> 9
          [] c = "\n" -> 10
          [] c = "\r" -> 13
          [] OTHER -> 31 + CHOOSE i \in 1..Len(Printable) : Printable[i] = c]

\* The bytes of a string literal written one character per element.
Bytes(chars) == [i \in 1..Len(chars) |-> Ascii[chars[i]]]

RECURSIVE Concat(_)
Concat(seqs) == IF seqs = <<>> THEN <<>> ELSE Head(seqs) \o Concat(Tail(seqs))

\* slice[from..] of a 0-based position.
From(s, pos) == SubSeq(s, pos + 1, Len(s))

\* <[u8]>::starts_with
StartsWith(s, prefix) ==
    /\ Len(prefix) <= Len(s)
    /\ SubSeq(s, 1, Len(prefix)) = prefix

---------------------------------------------------------------------------
(* json.rs: the value model.                                               *)

JNull == [t |-> "Null"]
JBool(b) == [t |-> "Bool", b |-> b]
\* A number keeps the text it was read from (the f64 is a function of it).
JNumber(lexeme) == [t |-> "Number", lexeme |-> lexeme]
JString(s) == [t |-> "String", s |-> s]
JArray(items) == [t |-> "Array", items |-> items]
JObject(pairs) == [t |-> "Object", pairs |-> pairs]

\* Option::None for the accessors below.
None == [t |-> "None"]

\* get finding the last pair whose key is key.
get_last(v, key) ==
    IF v.t = "Object" /\ \E i \in 1..Len(v.pairs) : v.pairs[i][1] = key
    THEN LET i == CHOOSE j \in 1..Len(v.pairs) :
                      /\ v.pairs[j][1] = key
                      /\ \A k \in (j + 1)..Len(v.pairs) : v.pairs[k][1] # key
         IN  v.pairs[i][2]
    ELSE None

\* JsonValue::get: the value of the first pair whose key is key.
get(v, key) ==
    IF v.t = "Object" /\ \E i \in 1..Len(v.pairs) : v.pairs[i][1] = key
    THEN LET i == CHOOSE j \in 1..Len(v.pairs) :
                      /\ v.pairs[j][1] = key
                      /\ \A k \in 1..(j - 1) : v.pairs[k][1] # key
         IN  v.pairs[i][2]
    ELSE None

as_str(v) == IF v.t = "String" THEN v ELSE None

as_bool(v) == IF v.t = "Bool" THEN v ELSE None

---------------------------------------------------------------------------
(* json.rs: the parser.  Every parser step returns a record                *)
(*   [kind, pos, val, message]                                             *)
(* kind "ok": val was read and the cursor is at pos;                       *)
(* kind "err": Parser::error(message) built with the cursor at pos;        *)
(* kind "panic": the thread panicked (an overflow check failed).           *)
(* A `?` of the source is a step whose continuation is an operator that    *)
(* takes the step's result and passes an error on unchanged.               *)

POk(pos, val) == [kind |-> "ok", pos |-> pos, val |-> val, message |-> ""]

\* Parser::error: "JSON parse error at position {pos}: {msg}".
PErr(pos, msg) == [kind |-> "err", pos |-> pos, val |-> None, message |-> msg]

PPanic(pos) ==
    [kind |-> "panic", pos |-> pos, val |-> None,
     message |-> "attempt to subtract with overflow"]

\* Parser::peek
peek(in, pos) ==
    IF pos < Len(in) THEN POk(pos, in[pos + 1])
    ELSE PErr(pos, "unexpected end of input")

\* Parser::peek_matches
peek_matches(in, pos, ch) == pos < Len(in) /\ in[pos + 1] = ch

\* advance moving the cursor also when peek failed.
Advanced_always(r) == [r EXCEPT !.pos = r.pos + 1]

\* Parser::advance, after its peek.
Advanced(r) == IF r.kind = "ok" THEN POk(r.pos + 1, r.val) ELSE r

\* Parser::advance
advance(in, pos) == Advanced(peek(in, pos))

\* Parser::expect, after its advance: the error is built when the cursor has
\* already moved past the byte.
Expected(r, expected) ==
    IF r.kind # "ok" THEN r
    ELSE IF r.val # expected THEN PErr(r.pos, "expected X, found Y")
    ELSE POk(r.pos, expected)

\* Parser::expect
expect(in, pos, expected) == Expected(advance(in, pos), expected)

IsWs(b) == b \in {Ascii[" "], Ascii["\t"], Ascii["\n"], Ascii["\r"]}

\* Parser::skip_whitespace: the cursor after the whitespace run.
RECURSIVE skip_whitespace(_, _)
skip_whitespace(in, pos) ==
    IF pos < Len(in) /\ IsWs(in[pos + 1]) THEN skip_whitespace(in, pos + 1)
    ELSE pos

\* u8::is_ascii_digit
IsDigit(b) == b >= Ascii["0"] /\ b <= Ascii["9"]

\* The while loop of Parser::consume_digits.
RECURSIVE DigitRun(_, _)
DigitRun(in, pos) ==
    IF pos < Len(in) /\ IsDigit(in[pos + 1]) THEN DigitRun(in, pos + 1)
    ELSE pos

\* Parser::consume_digits without the check of lines 161-163: an empty run
\* of digits is accepted.
consume_digits_optional(in, pos) == POk(DigitRun(in, pos), None)

\* Parser::consume_digits
consume_digits(in, pos) ==
    IF pos >= Len(in) \/ ~IsDigit(in[pos + 1]) THEN PErr(pos, "expected digit")
    ELSE POk(DigitRun(in, pos), None)

\* Parser::parse_number, lines 152-157: the text start..pos is the number.
NumberEnd(in, start, d) ==
    IF d.kind # "ok" THEN d
    ELSE POk(d.pos, JNumber(SubSeq(in, start + 1, d.pos)))

\* The cursor after the optional sign of an exponent.
AfterExpSign(in, pos) ==
    IF peek_matches(in, pos, Ascii["+"]) \/ peek_matches(in, pos, Ascii["-"])
    THEN pos + 1 ELSE pos

\* Parser::parse_number, lines 145-151: the optional exponent.
NumberExp(in, start, d) ==
    IF d.kind # "ok" THEN d
    ELSE IF peek_matches(in, d.pos, Ascii["e"]) \/ peek_matches(in, d.pos, Ascii["E"])
    THEN NumberEnd(in, start, consume_digits(in, AfterExpSign(in, d.pos + 1)))
    ELSE NumberEnd(in, start, d)

\* Parser::parse_number, lines 141-144: the optional fraction.
NumberFrac(in, start, d) ==
    IF d.kind # "ok" THEN d
    ELSE IF peek_matches(in, d.pos, Ascii["."])
    THEN NumberExp(in, start, consume_digits(in, d.pos + 1))
    ELSE NumberExp(in, start, d)

\* Parser::parse_number
parse_number(in, start) ==
    NumberFrac(in, start,
               consume_digits(in, IF peek_matches(in, start, Ascii["-"])
                                  THEN start + 1 ELSE start))

\* Parser::starts_with: self.input[self.pos..].starts_with(prefix)
starts_with(in, pos, prefix) == StartsWith(From(in, pos), prefix)

\* Parser::parse_bool
parse_bool(in, pos) ==
    IF starts_with(in, pos, Bytes(<<"t", "r", "u", "e">>))
    THEN POk(pos + 4, JBool(TRUE))
    ELSE IF starts_with(in, pos, Bytes(<<"f", "a", "l", "s", "e">>))
    THEN POk(pos + 5, JBool(FALSE))
    ELSE PErr(pos, "expected 'true' or 'false'")

\* Parser::parse_null
parse_null(in, pos) ==
    IF starts_with(in, pos, Bytes(<<"n", "u", "l", "l">>))
    THEN POk(pos + 4, JNull)
    ELSE PErr(pos, "expected 'null'")

\* The match on one hex digit in Parser::parse_unicode_escape; -1: no digit.
HexDigit(ch) ==
    IF ch >= Ascii["0"] /\ ch <= Ascii["9"] THEN ch - Ascii["0"]
    ELSE IF ch >= Ascii["a"] /\ ch <= Ascii["f"] THEN ch - Ascii["a"] + 10
    ELSE IF ch >= Ascii["A"] /\ ch <= Ascii["F"] THEN ch - Ascii["A"] + 10
    ELSE -1

\* The for loop of Parser::parse_unicode_escape: n digits are still to be
\* read and val is the number so far; UnicodeDigit takes the advance's result.
RECURSIVE UnicodeDigits(_, _, _, _)
UnicodeDigit(in, n, val, r) ==
    IF r.kind # "ok" THEN r
    ELSE IF HexDigit(r.val) < 0
    THEN PErr(r.pos, "invalid unicode escape hex digit")
    ELSE UnicodeDigits(in, r.pos, n - 1, val * 16 + HexDigit(r.val))

UnicodeDigits(in, pos, n, val) ==
    IF n = 0 THEN POk(pos, val)
    ELSE UnicodeDigit(in, n, val, advance(in, pos))

\* Parser::parse_unicode_escape
parse_unicode_escape(in, pos) == UnicodeDigits(in, pos, 4, 0)

\* char::from_u32 returns Some: a Unicode scalar value.
IsChar(cp) == cp >= 0 /\ cp <= \h10FFFF /\ ~(cp >= \hD800 /\ cp <= \hDFFF)

\* The same with the high half shifted by 8 bits.
Combined_shift8(cp, low) == \h10000 + ((cp - \hD800) * 256) + (low - \hDC00)

\* 0x10000 + ((cp as u32 - 0xD800) << 10) + (low as u32 - 0xDC00) when the
\* u32 arithmetic wraps.  The sum is at least 0x10000 - 0xDC00 and below
\* 2^32, so modulo 2^32 it is the number itself.
Combined(cp, low) == \h10000 + ((cp - \hD800) * 1024) + (low - \hDC00)

\* Lines 101-105, after the second escape was read.  It is not checked to be
\* a low surrogate: for low < 0xDC00 the subtraction overflows, which panics
\* when overflow checks are compiled in and wraps otherwise.
CombineSurrogates(cp, e2) ==
    IF e2.kind # "ok" THEN e2
    ELSE IF e2.val < \hDC00 /\ overflow_checks THEN PPanic(e2.pos)
    ELSE IF ~IsChar(Combined(cp, e2.val)) THEN PErr(e2.pos, "invalid surrogate pair")
    ELSE POk(e2.pos, Combined(cp, e2.val))

\* Line 99, after self.expect(b'u').
AfterSecondU(in, cp, u) ==
    IF u.kind # "ok" THEN u
    ELSE CombineSurrogates(cp, parse_unicode_escape(in, u.pos))

\* Line 98, after self.expect(b'\\').
AfterSecondBackslash(in, cp, b) ==
    IF b.kind # "ok" THEN b
    ELSE AfterSecondU(in, cp, expect(in, b.pos, Ascii["u"]))

\* Lines 97-110, after the first escape was read.
AfterFirstEscape(in, e1) ==
    IF e1.kind # "ok" THEN e1
    ELSE IF e1.val >= \hD800 /\ e1.val <= \hDBFF
    THEN AfterSecondBackslash(in, e1.val, expect(in, e1.pos, Ascii["\\"]))
    ELSE IF ~IsChar(e1.val) THEN PErr(e1.pos, "invalid unicode codepoint")
    ELSE POk(e1.pos, e1.val)

\* The b'u' arm of Parser::parse_string, the cursor after "\u": the character
\* to push.
UnicodeArm(in, pos) == AfterFirstEscape(in, parse_unicode_escape(in, pos))

\* The loop of Parser::parse_string: s holds the characters pushed so far.
RECURSIVE StringLoop(_, _, _)

\* After the b'u' arm produced a character (or failed).
PushUnicode(in, s, u) ==
    IF u.kind # "ok" THEN u
    ELSE StringLoop(in, u.pos, Append(s, u.val))

\* The match on the byte after a backslash with the arms of RFC 8259 for
\* b and f.
EscapeArm_rfc8259(in, s, e) ==
    IF e.kind # "ok" THEN e
    ELSE IF e.val = Ascii["\""] THEN StringLoop(in, e.pos, Append(s, Ascii["\""]))
    ELSE IF e.val = Ascii["\\"] THEN StringLoop(in, e.pos, Append(s, Ascii["\\"]))
    ELSE IF e.val = Ascii["/"] THEN StringLoop(in, e.pos, Append(s, Ascii["/"]))
    ELSE IF e.val = Ascii["b"] THEN StringLoop(in, e.pos, Append(s, 8))
    ELSE IF e.val = Ascii["f"] THEN StringLoop(in, e.pos, Append(s, 12))
    ELSE IF e.val = Ascii["n"] THEN StringLoop(in, e.pos, Append(s, Ascii["\n"]))
    ELSE IF e.val = Ascii["r"] THEN StringLoop(in, e.pos, Append(s, Ascii["\r"]))
    ELSE IF e.val = Ascii["t"] THEN StringLoop(in, e.pos, Append(s, Ascii["\t"]))
    ELSE IF e.val = Ascii["u"] THEN PushUnicode(in, s, UnicodeArm(in, e.pos))
    ELSE PErr(e.pos, "invalid escape")

\* The match on the byte after a backslash.
EscapeArm(in, s, e) ==
    IF e.kind # "ok" THEN e
    ELSE IF e.val = Ascii["\""] THEN StringLoop(in, e.pos, Append(s, Ascii["\""]))
    ELSE IF e.val = Ascii["\\"] THEN StringLoop(in, e.pos, Append(s, Ascii["\\"]))
    ELSE IF e.val = Ascii["/"] THEN StringLoop(in, e.pos, Append(s, Ascii["/"]))
    ELSE IF e.val = Ascii["n"] THEN StringLoop(in, e.pos, Append(s, Ascii["\n"]))
    ELSE IF e.val = Ascii["r"] THEN StringLoop(in, e.pos, Append(s, Ascii["\r"]))
    ELSE IF e.val = Ascii["t"] THEN StringLoop(in, e.pos, Append(s, Ascii["\t"]))
    ELSE IF e.val = Ascii["u"] THEN PushUnicode(in, s, UnicodeArm(in, e.pos))
    ELSE PErr(e.pos, "invalid escape")

\* The match on the byte the loop read.  A byte that is neither a quote nor a
\* backslash is pushed as the character with that byte's number (ch as char).
StringArm(in, s, c) ==
    IF c.kind # "ok" THEN c
    ELSE IF c.val = Ascii["\""] THEN POk(c.pos, s)
    ELSE IF c.val = Ascii["\\"] THEN EscapeArm(in, s, advance(in, c.pos))
    ELSE StringLoop(in, c.pos, Append(s, c.val))

StringLoop(in, pos, s) == StringArm(in, s, advance(in, pos))

\* Parser::parse_string after the opening quote was expected.
StringBody(in, q) == IF q.kind # "ok" THEN q ELSE StringLoop(in, q.pos, <<>>)

\* Parser::parse_string: val is the String, a sequence of code points.
parse_string(in, pos) == StringBody(in, expect(in, pos, Ascii["\""]))

RECURSIVE parse_value(_, _)
RECURSIVE ArrayLoop(_, _, _)
RECURSIVE ObjectLoop(_, _, _)

\* Parser::parse_array, lines 207-212: items already holds the new value.
ArraySeparator(in, items, c) ==
    IF c.kind # "ok" THEN c
    ELSE IF c.val = Ascii["]"] THEN POk(c.pos, JArray(items))
    ELSE IF c.val = Ascii[","] THEN ArrayLoop(in, c.pos, items)
    ELSE PErr(c.pos, "expected ',' or ']' in array")

\* Parser::parse_array, lines 204-207.
ArrayItem(in, items, v) ==
    IF v.kind # "ok" THEN v
    ELSE ArraySeparator(in, Append(items, v.val),
                        advance(in, skip_whitespace(in, v.pos)))

\* The loop of Parser::parse_array.
ArrayLoop(in, pos, items) == ArrayItem(in, items, parse_value(in, pos))

\* Parser::parse_array, lines 199-203, the cursor after '[' and whitespace.
ArrayBody(in, pos) ==
    IF peek_matches(in, pos, Ascii["]"]) THEN POk(pos + 1, JArray(<<>>))
    ELSE ArrayLoop(in, pos, <<>>)

ArrayOpen(in, o) ==
    IF o.kind # "ok" THEN o ELSE ArrayBody(in, skip_whitespace(in, o.pos))

\* Parser::parse_array
parse_array(in, pos) == ArrayOpen(in, expect(in, pos, Ascii["["]))

\* Parser::parse_object, lines 186-191: pairs already holds the new pair.
ObjectSeparator(in, pairs, c) ==
    IF c.kind # "ok" THEN c
    ELSE IF c.val = Ascii["}"] THEN POk(c.pos, JObject(pairs))
    ELSE IF c.val = Ascii[","] THEN ObjectLoop(in, c.pos, pairs)
    ELSE PErr(c.pos, "expected ',' or '}' in object")

\* Parser::parse_object, lines 183-186.
ObjectValue(in, pairs, key, v) ==
    IF v.kind # "ok" THEN v
    ELSE ObjectSeparator(in, Append(pairs, <<key, v.val>>),
                         advance(in, skip_whitespace(in, v.pos)))

\* Parser::parse_object, lines 182-183.
ObjectColon(in, pairs, key, colon) ==
    IF colon.kind # "ok" THEN colon
    ELSE ObjectValue(in, pairs, key, parse_value(in, colon.pos))

\* Parser::parse_object, lines 180-182.
ObjectKey(in, pairs, key) ==
    IF key.kind # "ok" THEN key
    ELSE ObjectColon(in, pairs, key.val,
                     expect(in, skip_whitespace(in, key.pos), Ascii[":"]))

\* The loop of Parser::parse_object.
ObjectLoop(in, pos, pairs) ==
    ObjectKey(in, pairs, parse_string(in, skip_whitespace(in, pos)))

\* Parser::parse_object, lines 174-178, the cursor after '{' and whitespace.
ObjectBody(in, pos) ==
    IF peek_matches(in, pos, Ascii["}"]) THEN POk(pos + 1, JObject(<<>>))
    ELSE ObjectLoop(in, pos, <<>>)

ObjectOpen(in, o) ==
    IF o.kind # "ok" THEN o ELSE ObjectBody(in, skip_whitespace(in, o.pos))

\* Parser::parse_object
parse_object(in, pos) == ObjectOpen(in, expect(in, pos, Ascii["{"]))

\* .map(JsonValue::String)
StringValue(s) == IF s.kind = "ok" THEN POk(s.pos, JString(s.val)) ELSE s

\* The match of Parser::parse_value on the byte peeked at pos.
ValueArm(in, pos, c) ==
    IF c.kind # "ok" THEN c
    ELSE IF c.val = Ascii["\""] THEN StringValue(parse_string(in, pos))
    ELSE IF c.val = Ascii["{"] THEN parse_object(in, pos)
    ELSE IF c.val = Ascii["["] THEN parse_array(in, pos)
    ELSE IF c.val \in {Ascii["t"], Ascii["f"]} THEN parse_bool(in, pos)
    ELSE IF c.val = Ascii["n"] THEN parse_null(in, pos)
    ELSE IF c.val = Ascii["-"] \/ IsDigit(c.val) THEN parse_number(in, pos)
    ELSE PErr(pos, "unexpected character")

ValueAt(in, pos) == ValueArm(in, pos, peek(in, pos))

\* Parser::parse_value: one byte of lookahead picks the production.
parse_value(in, pos) == ValueAt(in, skip_whitespace(in, pos))

\* json::parse without the check of lines 47-50.
TrailingIgnored(in, val, pos) == POk(pos, val)

\* json::parse, lines 47-50: the cursor is at pos after skip_whitespace.
TrailingCheck(in, val, pos) ==
    IF pos < Len(in) THEN PErr(pos, "unexpected trailing content")
    ELSE POk(pos, val)

\* json::parse, lines 45-46.
AfterValue(in, v) ==
    IF v.kind # "ok" THEN v
    ELSE TrailingCheck(in, v.val, skip_whitespace(in, v.pos))

\* json::parse
parse(in) == AfterValue(in, parse_value(in, 0))

---------------------------------------------------------------------------
(* UTF-8, as the standard library converts between bytes and Strings.      *)

IsCont(b) == b >= \h80 /\ b <= \hBF

\* The byte at 1-based index i, or -1 past the end.
ByteAt(bs, i) == IF i <= Len(bs) THEN bs[i] ELSE -1

\* Whether b1 may follow the lead byte b0 of a 3- or 4-byte sequence.
SecondOk(b0, b1) ==
    CASE b0 = \hE0 -> b1 >= \hA0 /\ b1 <= \hBF
      [] b0 = \hED -> b1 >= \h80 /\ b1 <= \h9F
      [] b0 = \hF0 -> b1 >= \h90 /\ b1 <= \hBF
      [] b0 = \hF4 -> b1 >= \h80 /\ b1 <= \h8F
      [] OTHER -> IsCont(b1)

\* One step of core::str::Utf8Chunks at index i: the character there, or the
\* length of the invalid sequence that from_utf8_lossy replaces by U+FFFD.
DecodeAt(bs, i) ==
    LET b0 == bs[i]
        b1 == ByteAt(bs, i + 1)
        b2 == ByteAt(bs, i + 2)
        b3 == ByteAt(bs, i + 3)
        Bad(n) == [valid |-> FALSE, len |-> n, cp |-> \hFFFD]
        Good(n, cp) == [valid |-> TRUE, len |-> n, cp |-> cp]
    IN  IF b0 < \h80 THEN Good(1, b0)
        ELSE IF b0 >= \hC2 /\ b0 <= \hDF
        THEN IF IsCont(b1) THEN Good(2, (b0 - \hC0) * 64 + (b1 - \h80)) ELSE Bad(1)
        ELSE IF b0 >= \hE0 /\ b0 <= \hEF
        THEN IF ~SecondOk(b0, b1) THEN Bad(1)
             ELSE IF ~IsCont(b2) THEN Bad(2)
             ELSE Good(3, (b0 - \hE0) * 4096 + (b1 - \h80) * 64 + (b2 - \h80))
        ELSE IF b0 >= \hF0 /\ b0 <= \hF4
        THEN IF ~SecondOk(b0, b1) THEN Bad(1)
             ELSE IF ~IsCont(b2) THEN Bad(2)
             ELSE IF ~IsCont(b3) THEN Bad(3)
             ELSE Good(4, (b0 - \hF0) * 262144 + (b1 - \h80) * 4096
                          + (b2 - \h80) * 64 + (b3 - \h80))
        ELSE Bad(1)

\* The index of the first byte >= 0x80 at or after i, Len(bs) + 1 if none:
\* an ASCII byte is its own character.
NextNonAscii(bs, i) ==
    LET high == {j \in i..Len(bs) : bs[j] >= \h80}
    IN  IF high = {} THEN Len(bs) + 1
        ELSE CHOOSE j \in high : \A k \in high : j <= k

RECURSIVE LossyFrom(_, _)
LossyFrom(bs, i) ==
    IF i > Len(bs) THEN <<>>
    ELSE LET n == NextNonAscii(bs, i)
             d == DecodeAt(bs, i)
         IN  IF n > i THEN SubSeq(bs, i, n - 1) \o LossyFrom(bs, n)
             ELSE <<d.cp>> \o LossyFrom(bs, i + d.len)

\* String::from_utf8_lossy
from_utf8_lossy(bs) == LossyFrom(bs, 1)

RECURSIVE ValidFrom(_, _)
ValidFrom(bs, i) ==
    IF i > Len(bs) THEN TRUE
    ELSE LET n == NextNonAscii(bs, i)
             d == DecodeAt(bs, i)
         IN  IF n > i THEN ValidFrom(bs, n)
             ELSE d.valid /\ ValidFrom(bs, i + d.len)

\* String::from_utf8 succeeds
Utf8Valid(bs) == ValidFrom(bs, 1)

\* The UTF-8 bytes of one character.
EncodeChar(cp) ==
    IF cp < \h80 THEN <<cp>>
    ELSE IF cp < \h800 THEN <<\hC0 + (cp \div 64), \h80 + (cp % 64)>>
    ELSE IF cp < \h10000
    THEN <<\hE0 + (cp \div 4096), \h80 + ((cp \div 64) % 64), \h80 + (cp % 64)>>
    ELSE <<\hF0 + (cp \div 262144), \h80 + ((cp \div 4096) % 64),
           \h80 + ((cp \div 64) % 64), \h80 + (cp % 64)>>

\* str::as_bytes: the bytes of a String.
RECURSIVE EncodeFrom(_, _)
EncodeFrom(str, i) ==
    IF i > Len(str) THEN <<>>
    ELSE LET n == NextNonAscii(str, i)
         IN  IF n > i THEN SubSeq(str, i, n - 1) \o EncodeFrom(str, n)
             ELSE EncodeChar(str[i]) \o EncodeFrom(str, i + 1)

as_bytes(str) == EncodeFrom(str, 1)

---------------------------------------------------------------------------
(* Writing a value back as JSON text.  The repository has no encoder; this *)
(* one writes what RFC 8259 asks of any encoder: quote, backslash and      *)
(* control characters escaped, every other character as its UTF-8 bytes,   *)
(* a number as the text it was read from, no whitespace.                   *)

\* The two lowercase hex digits of a number below 256.
HexPair(n) ==
    << (IF n \div 16 < 10 THEN 48 + (n \div 16) ELSE 87 + (n \div 16)),
       (IF n % 16 < 10 THEN 48 + (n % 16) ELSE 87 + (n % 16)) >>

encode_char(c) ==
    IF c = Ascii["\""] THEN Bytes(<<"\\", "\"">>)
    ELSE IF c = Ascii["\\"] THEN Bytes(<<"\\", "\\">>)
    ELSE IF c < 32 THEN Bytes(<<"\\", "u", "0", "0">>) \o HexPair(c)
    ELSE EncodeChar(c)

encode_string(str) ==
    Bytes(<<"\"">>) \o Concat([i \in 1..Len(str) |-> encode_char(str[i])])
    \o Bytes(<<"\"">>)

\* The texts in items with commas between them.
RECURSIVE CommaJoined(_)
CommaJoined(items) ==
    IF items = <<>> THEN <<>>
    ELSE IF Len(items) = 1 THEN items[1]
    ELSE items[1] \o Bytes(<<",">>) \o CommaJoined(Tail(items))

RECURSIVE encode(_)
encode(v) ==
    CASE v.t = "Null" -> Bytes(<<"n", "u", "l", "l">>)
      [] v.t = "Bool" -> IF v.b THEN Bytes(<<"t", "r", "u", "e">>)
                         ELSE Bytes(<<"f", "a", "l", "s", "e">>)
      [] v.t = "Number" -> v.lexeme
      [] v.t = "String" -> encode_string(v.s)
      [] v.t = "Array" ->
            Bytes(<<"[">>)
            \o CommaJoined([i \in 1..Len(v.items) |-> encode(v.items[i])])
            \o Bytes(<<"]">>)
      [] v.t = "Object" ->
            Bytes(<<"{">>)
            \o CommaJoined([i \in 1..Len(v.pairs) |->
                              encode_string(v.pairs[i][1]) \o Bytes(<<":">>)
                              \o encode(v.pairs[i][2])])
            \o Bytes(<<"}">>)

---------------------------------------------------------------------------
(* oauth.rs: results and string helpers.                                   *)

\* Result<_, SlkError>.  message is the literal part of the error text,
\* detail the text formatted into it.
Ok(val) == [kind |-> "ok", val |-> val, message |-> "", detail |-> <<>>]

Err(message, detail) ==
    [kind |-> "err", val |-> <<>>, message |-> message, detail |-> detail]

Panicked == [kind |-> "panic", val |-> <<>>, message |-> "", detail |-> <<>>]

NoResult == [kind |-> "none", val |-> <<>>, message |-> "", detail |-> <<>>]

\* char::is_whitespace (the White_Space property).
IsWhitespace(c) ==
    \/ c >= 9 /\ c <= 13
    \/ c \in {\h20, \h85, \hA0, \h1680, \h2028, \h2029, \h202F, \h205F, \h3000}
    \/ c >= \h2000 /\ c <= \h200A

\* A finite set of numbers in increasing order.
RECURSIVE Sorted(_)
Sorted(S) ==
    IF S = {} THEN <<>>
    ELSE LET m == CHOOSE x \in S : \A y \in S : x <= y
         IN  <<m>> \o Sorted(S \ {m})

\* The pieces of s between the positions in cuts, empty pieces kept.
PiecesBetween(s, cuts) ==
    LET b == Sorted(cuts \cup {0, Len(s) + 1})
    IN  [k \in 1..(Len(b) - 1) |-> SubSeq(s, b[k] + 1, b[k + 1] - 1)]

NonEmpty(piece) == piece # <<>>

\* str::split_whitespace: the maximal runs of non-whitespace characters.
split_whitespace(s) ==
    SelectSeq(PiecesBetween(s, {i \in 1..Len(s) : IsWhitespace(s[i])}), NonEmpty)

\* str::split(sep): the pieces between separators, empty pieces kept.
split(s, sep) == PiecesBetween(s, {i \in 1..Len(s) : s[i] = sep})

Some(v) == [some |-> TRUE, v |-> v]
Nothing == [some |-> FALSE, v |-> <<>>]

\* str::strip_prefix
strip_prefix(s, prefix) ==
    IF StartsWith(s, prefix) THEN Some(SubSeq(s, Len(prefix) + 1, Len(s)))
    ELSE Nothing

---------------------------------------------------------------------------
(* oauth.rs: generate_state, extract_callback_params, exchange_code.       *)

HexLower ==
    Bytes(<<"0", "1", "2", "3", "4", "5", "6", "7", "8", "9",
            "a", "b", "c", "d", "e", "f">>)

\* format!("{:x}", b): the width and the zero padding are dropped.
HexByte_unpadded(b) ==
    IF b < 16 THEN <<HexLower[b + 1]>>
    ELSE <<HexLower[(b \div 16) + 1], HexLower[(b % 16) + 1]>>

\* format!("{:02x}", b)
HexByte(b) == <<HexLower[(b \div 16) + 1], HexLower[(b % 16) + 1]>>

\* generate_state, given the bytes read from /dev/urandom.
generate_state(buf) == Concat([i \in 1..Len(buf) |-> HexByte(buf[i])])

CodePrefix == Bytes(<<"c", "o", "d", "e", "=">>)
StatePrefix == Bytes(<<"s", "t", "a", "t", "e", "=">>)

\* The for loop of extract_callback_params over the '&'-separated pieces.
RECURSIVE ScanParams(_, _, _)
ScanParams(pieces, code, st) ==
    IF pieces = <<>> THEN <<code, st>>
    ELSE LET param == Head(pieces)
             c == strip_prefix(param, CodePrefix)
             t == strip_prefix(param, StatePrefix)
         IN  IF c.some
             THEN ScanParams(Tail(pieces), IF c.v # <<>> THEN c ELSE code, st)
             ELSE IF t.some /\ t.v # <<>>
             THEN ScanParams(Tail(pieces), code, t)
             ELSE ScanParams(Tail(pieces), code, st)

\* extract_callback_params with the two "no parameter" messages exchanged.
extract_callback_params_swapped(req) ==
    LET tokens == split_whitespace(req)
    IN  IF Len(tokens) < 2 THEN Err("invalid HTTP request", <<>>)
        ELSE
        LET parts == split(tokens[2], Ascii["?"])
        IN  IF Len(parts) < 2 THEN Err("no query string in callback", <<>>)
            ELSE
            LET found == ScanParams(split(parts[2], Ascii["&"]), Nothing, Nothing)
            IN  IF ~found[1].some
                THEN Err("no 'state' parameter in callback", <<>>)
                ELSE IF ~found[2].some
                THEN Err("no 'code' parameter in callback. Authorization may have been denied.", <<>>)
                ELSE Ok(<<found[1].v, found[2].v>>)

\* extract_callback_params: Ok(<<code, state>>) or the error.
extract_callback_params(req) ==
    LET tokens == split_whitespace(req)
    IN  IF Len(tokens) < 2 THEN Err("invalid HTTP request", <<>>)
        ELSE
        LET parts == split(tokens[2], Ascii["?"])
        IN  IF Len(parts) < 2 THEN Err("no query string in callback", <<>>)
            ELSE
            LET found == ScanParams(split(parts[2], Ascii["&"]), Nothing, Nothing)
            IN  IF ~found[1].some
                THEN Err("no 'code' parameter in callback. Authorization may have been denied.", <<>>)
                ELSE IF ~found[2].some
                THEN Err("no 'state' parameter in callback", <<>>)
                ELSE Ok(<<found[1].v, found[2].v>>)

\* The comparison with its sense inverted.
state_matches_inverted(callback_state, generated) == callback_state # generated

\* The `if callback_state != state` of run_oauth_flow.
state_matches(callback_state, generated) == callback_state = generated

KeyOk == Bytes(<<"o", "k">>)
KeyError == Bytes(<<"e", "r", "r", "o", "r">>)
KeyAuthedUser == Bytes(<<"a", "u", "t", "h", "e", "d", "_", "u", "s", "e", "r">>)
KeyAccessToken ==
    Bytes(<<"a", "c", "c", "e", "s", "s", "_", "t", "o", "k", "e", "n">>)
UnknownError ==
    Bytes(<<"u", "n", "k", "n", "o", "w", "n", " ", "e", "r", "r", "o", "r">>)

\* The same with unwrap_or(true).
ok_of_default_true(json_val) ==
    LET b == as_bool(get(json_val, KeyOk))
    IN  IF b = None THEN TRUE ELSE b.b

\* .get("ok").and_then(|v| v.as_bool()).unwrap_or(false)
ok_of(json_val) ==
    LET b == as_bool(get(json_val, KeyOk))
    IN  IF b = None THEN FALSE ELSE b.b

\* exchange_code, lines 139-163: the response was parsed to j.
ExchangeParsed(j) ==
    IF j.kind = "panic" THEN Panicked
    ELSE IF j.kind = "err"
    THEN Err("JSON parse error at position {}: " \o j.message, <<j.pos>>)
    ELSE IF ~ok_of(j.val)
    THEN Err("oauth.v2.access failed: {}",
             IF as_str(get(j.val, KeyError)) = None THEN UnknownError
             ELSE as_str(get(j.val, KeyError)).s)
    ELSE IF as_str(get(get(j.val, KeyAuthedUser), KeyAccessToken)) = None
    THEN Err("missing authed_user.access_token in response", <<>>)
    ELSE Ok(as_str(get(get(j.val, KeyAuthedUser), KeyAccessToken)).s)

\* exchange_code from the point where the curl child has ended with out.
exchange_code(out) ==
    IF out.run = "spawn_failed" THEN Err("failed to execute curl: {}", <<>>)
    ELSE IF out.run = "exit_nonzero" THEN Err("curl failed (exit {}): {}", <<>>)
    ELSE IF ~Utf8Valid(out.stdout) THEN Err("invalid UTF-8 in response: {}", <<>>)
    ELSE ExchangeParsed(parse(out.stdout))

---------------------------------------------------------------------------
(* message.rs: extract_messages, extract_conversations, resolve_user_name. *)
(* An error built with format! and push_str is Err("{}", text) with the    *)
(* whole message text as detail.                                           *)

\* JsonValue::as_array
as_array(v) == IF v.t = "Array" THEN v ELSE None

\* .get(name).and_then(|v| v.as_str())
StrField(v, name) == as_str(get(v, Bytes(name)))

\* Option<&str>::unwrap_or
UnwrapOr(opt, default) == IF opt = None THEN default ELSE opt.s

SlackApiError ==
    Bytes(<<"S", "l", "a", "c", "k", " ", "A", "P", "I", " ",
            "e", "r", "r", "o", "r", ":", " ">>)
NeededScope ==
    Bytes(<<"\n", " ", " ", "n", "e", "e", "d", "e", "d", " ",
            "s", "c", "o", "p", "e", ":", " ">>)
ProvidedScopes ==
    Bytes(<<"\n", " ", " ", "p", "r", "o", "v", "i", "d", "e", "d", " ",
            "s", "c", "o", "p", "e", "s", ":", " ">>)

\* The scope line is never appended.
ScopeLine_dropped(prefix, scope) == <<>>

\* if let Some(scope) = scope { msg.push_str(&format!(prefix + "{}", scope)) }
ScopeLine(prefix, scope) == IF scope = None THEN <<>> ELSE prefix \o scope.s

\* The `if !ok` block the three functions share (lines 46-60, 108-122,
\* 154-168).
ApiError(response) ==
    Err("{}",
        SlackApiError
            \o UnwrapOr(StrField(response, <<"e", "r", "r", "o", "r">>), UnknownError)
            \o ScopeLine(NeededScope, StrField(response, <<"n", "e", "e", "d", "e", "d">>))
            \o ScopeLine(ProvidedScopes,
                         StrField(response, <<"p", "r", "o", "v", "i", "d", "e", "d">>)))

\* The fallback order with username tried before user.
MessageUser_username_first(msg) ==
    IF StrField(msg, <<"u", "s", "e", "r", "n", "a", "m", "e">>) # None
    THEN StrField(msg, <<"u", "s", "e", "r", "n", "a", "m", "e">>).s
    ELSE IF StrField(msg, <<"u", "s", "e", "r">>) # None
    THEN StrField(msg, <<"u", "s", "e", "r">>).s
    ELSE UnwrapOr(StrField(msg, <<"b", "o", "t", "_", "i", "d">>),
                  Bytes(<<"u", "n", "k", "n", "o", "w", "n">>))

\* user, or_else username, or_else bot_id, unwrap_or("unknown").
MessageUser(msg) ==
    IF StrField(msg, <<"u", "s", "e", "r">>) # None
    THEN StrField(msg, <<"u", "s", "e", "r">>).s
    ELSE IF StrField(msg, <<"u", "s", "e", "r", "n", "a", "m", "e">>) # None
    THEN StrField(msg, <<"u", "s", "e", "r", "n", "a", "m", "e">>).s
    ELSE UnwrapOr(StrField(msg, <<"b", "o", "t", "_", "i", "d">>),
                  Bytes(<<"u", "n", "k", "n", "o", "w", "n">>))

\* The body of the loop over the messages array.
SlackMessage(msg) ==
    [user |-> MessageUser(msg),
     text |-> UnwrapOr(StrField(msg, <<"t", "e", "x", "t">>), <<>>),
     ts |-> UnwrapOr(StrField(msg, <<"t", "s">>), Bytes(<<"0">>))]

\* The body of the loop over the channels array.
SlackConversation(ch) ==
    [id |-> UnwrapOr(StrField(ch, <<"i", "d">>), <<>>),
     name |-> UnwrapOr(StrField(ch, <<"n", "a", "m", "e">>), <<>>)]

extract_messages(response) ==
    IF as_bool(get(response, KeyOk)) = None
    THEN Err("missing 'ok' field in response", <<>>)
    ELSE IF ~as_bool(get(response, KeyOk)).b THEN ApiError(response)
    ELSE IF as_array(get(response, Bytes(<<"m", "e", "s", "s", "a", "g", "e", "s">>))) = None
    THEN Err("missing 'messages' array in response", <<>>)
    ELSE Ok([i \in 1..Len(get(response, Bytes(<<"m", "e", "s", "s", "a", "g", "e", "s">>)).items) |->
                SlackMessage(get(response, Bytes(<<"m", "e", "s", "s", "a", "g", "e", "s">>)).items[i])])

extract_conversations(response) ==
    IF as_bool(get(response, KeyOk)) = None
    THEN Err("missing 'ok' field in response", <<>>)
    ELSE IF ~as_bool(get(response, KeyOk)).b THEN ApiError(response)
    ELSE IF as_array(get(response, Bytes(<<"c", "h", "a", "n", "n", "e", "l", "s">>))) = None
    THEN Err("missing 'channels' array in response", <<>>)
    ELSE Ok([i \in 1..Len(get(response, Bytes(<<"c", "h", "a", "n", "n", "e", "l", "s">>)).items) |->
                SlackConversation(get(response, Bytes(<<"c", "h", "a", "n", "n", "e", "l", "s">>)).items[i])])

\* Some(s) with s non-empty.
NonEmptyStr(opt) == opt # None /\ opt.s # <<>>

\* resolve_user_name from line 175: display_name, real_name, name.
UserName(user) ==
    IF NonEmptyStr(StrField(get(user, Bytes(<<"p", "r", "o", "f", "i", "l", "e">>)),
                      <<"d", "i", "s", "p", "l", "a", "y", "_", "n", "a", "m", "e">>))
    THEN Ok(StrField(get(user, Bytes(<<"p", "r", "o", "f", "i", "l", "e">>)),
                     <<"d", "i", "s", "p", "l", "a", "y", "_", "n", "a", "m", "e">>).s)
    ELSE IF NonEmptyStr(StrField(user, <<"r", "e", "a", "l", "_", "n", "a", "m", "e">>))
    THEN Ok(StrField(user, <<"r", "e", "a", "l", "_", "n", "a", "m", "e">>).s)
    ELSE IF NonEmptyStr(StrField(user, <<"n", "a", "m", "e">>))
    THEN Ok(StrField(user, <<"n", "a", "m", "e">>).s)
    ELSE Err("no user name found in response", <<>>)

resolve_user_name(response) ==
    IF as_bool(get(response, KeyOk)) = None
    THEN Err("missing 'ok' field in response", <<>>)
    ELSE IF ~as_bool(get(response, KeyOk)).b THEN ApiError(response)
    ELSE IF get(response, Bytes(<<"u", "s", "e", "r">>)) = None
    THEN Err("missing 'user' field in response", <<>>)
    ELSE UserName(get(response, Bytes(<<"u", "s", "e", "r">>)))

\* `let json_value = json::parse(&raw)?;` of main.rs followed by one of the
\* three functions, whose result on the parsed value is extracted.
AfterJsonParse(j, extracted_value) ==
    IF j.kind = "panic" THEN Panicked
    ELSE IF j.kind = "err"
    THEN Err("JSON parse error at position {}: " \o j.message, <<j.pos>>)
    ELSE extracted_value

---------------------------------------------------------------------------
(* url.rs: parse_slack_url and convert_timestamp.  str::len and            *)
(* str::split_at count the bytes of the UTF-8 encoding.                    *)

\* str::len
RECURSIVE ByteLen(_)
ByteLen(s) == IF s = <<>> THEN 0 ELSE Len(EncodeChar(Head(s))) + ByteLen(Tail(s))

\* str::is_char_boundary
is_char_boundary(s, mid) == \E k \in 0..Len(s) : ByteLen(SubSeq(s, 1, k)) = mid

\* The number of characters before byte offset mid, a character boundary.
CharsBefore(s, mid) == CHOOSE k \in 0..Len(s) : ByteLen(SubSeq(s, 1, k)) = mid

\* `digits.split_at(10)` and the format! of lines 42-43; split_at panics
\* when the offset is inside a character.
SplitTimestamp(digits) ==
    IF ~is_char_boundary(digits, 10) THEN Panicked
    ELSE Ok(SubSeq(digits, 1, CharsBefore(digits, 10)) \o Bytes(<<".">>)
            \o SubSeq(digits, CharsBefore(digits, 10) + 1, Len(digits)))

convert_timestamp(raw) ==
    IF ~strip_prefix(raw, Bytes(<<"p">>)).some
    THEN Err("timestamp must start with 'p'", <<>>)
    ELSE IF ByteLen(strip_prefix(raw, Bytes(<<"p">>)).v) <= 10
    THEN Err("timestamp too short", <<>>)
    ELSE SplitTimestamp(strip_prefix(raw, Bytes(<<"p">>)).v)

Archives == Bytes(<<"a", "r", "c", "h", "i", "v", "e", "s">>)

\* `?` on convert_timestamp, then the SlackThread of lines 27-30.
ThreadOf(channel_id, ts) ==
    IF ts.kind # "ok" THEN ts
    ELSE Ok([channel_id |-> channel_id, ts |-> ts.val])

\* parse_slack_url from line 17; archives_pos is 0-based.
AfterArchives(segments, archives_pos) ==
    IF archives_pos + 2 > Len(segments)
    THEN Err("missing channel ID after /archives/", <<>>)
    ELSE IF archives_pos + 3 > Len(segments)
    THEN Err("missing timestamp after channel ID", <<>>)
    ELSE ThreadOf(segments[archives_pos + 2],
                  convert_timestamp(segments[archives_pos + 3]))

\* segments.iter().position(|&s| s == "archives")
ArchivesPosition(segments) ==
    (CHOOSE i \in 1..Len(segments) :
        /\ segments[i] = Archives
        /\ \A j \in 1..(i - 1) : segments[j] # Archives) - 1

parse_slack_url(url) ==
    IF \A i \in 1..Len(split(url, Ascii["/"])) : split(url, Ascii["/"])[i] # Archives
    THEN Err("URL must contain '/archives/'", <<>>)
    ELSE AfterArchives(split(url, Ascii["/"]), ArchivesPosition(split(url, Ascii["/"])))

---------------------------------------------------------------------------
(* config.rs: load_token and save_token, as functions of the file          *)
(* <config_dir>/credentials.  A file is [home, exists, mode, content]:     *)
(* home says whether config_dir() finds a base directory, mode is the      *)
(* permission bits, content the bytes.  The target is unix.                *)

\* fs::Permissions::from_mode(0o600)
Mode0600 == 384

OwnerMayRead(file) == (file.mode \div 256) % 2 = 1
OwnerMayWrite(file) == (file.mode \div 128) % 2 = 1

\* str::trim: without the leading and trailing whitespace.
trim(s) ==
    IF \A i \in 1..Len(s) : IsWhitespace(s[i]) THEN <<>>
    ELSE SubSeq(s,
                CHOOSE i \in 1..Len(s) :
                    ~IsWhitespace(s[i]) /\ \A j \in 1..(i - 1) : IsWhitespace(s[j]),
                CHOOSE i \in 1..Len(s) :
                    ~IsWhitespace(s[i]) /\ \A j \in (i + 1)..Len(s) : IsWhitespace(s[j]))

\* fs::read_to_string: the text, or the kind of the io::Error.
read_to_string(file) ==
    IF ~file.exists THEN Err("NotFound", <<>>)
    ELSE IF ~OwnerMayRead(file) THEN Err("PermissionDenied", <<>>)
    ELSE IF ~Utf8Valid(file.content) THEN Err("InvalidData", <<>>)
    ELSE Ok(from_utf8_lossy(file.content))

\* The match of load_token on what read_to_string returned.
LoadRead(read) ==
    IF read.kind = "ok"
    THEN IF trim(read.val) = <<>> THEN Ok(Nothing) ELSE Ok(Some(trim(read.val)))
    ELSE IF read.message = "NotFound" THEN Ok(Nothing)
    ELSE Err("failed to read {}: {}", <<>>)

load_token(file) ==
    IF ~file.home THEN Err("HOME environment variable is not set", <<>>)
    ELSE LoadRead(read_to_string(file))

\* The permissions are left as fs::write made them.
SetPermissions_skipped(file, io) == [file |-> file, result |-> Ok(<<>>)]

\* fs::set_permissions(&path, perms) of lines 57-67, and Ok(path).
SetPermissions(file, io) ==
    IF io.set_permissions
    THEN [file |-> [file EXCEPT !.mode = Mode0600], result |-> Ok(<<>>)]
    ELSE [file |-> file,
          result |-> Err("failed to set permissions on {}: {}", <<>>)]

\* fs::write(&path, token) of lines 48-54: the file is created with the mode
\* the umask leaves, or truncated, and the bytes of token are written.
WriteToken(file, token, io) ==
    IF file.exists /\ ~OwnerMayWrite(file)
    THEN [file |-> file, result |-> Err("failed to write {}: {}", <<>>)]
    ELSE IF ~io.write
    THEN [file |-> [file EXCEPT !.exists = TRUE, !.content = <<>>,
                                !.mode = IF file.exists THEN file.mode ELSE io.created],
          result |-> Err("failed to write {}: {}", <<>>)]
    ELSE SetPermissions([file EXCEPT !.exists = TRUE, !.content = as_bytes(token),
                                     !.mode = IF file.exists THEN file.mode ELSE io.created],
                        io)

\* save_token; io says which of the file system calls succeed.  The result
\* is the file afterwards and what the caller gets.
save_token(file, token, io) ==
    IF ~file.home
    THEN [file |-> file, result |-> Err("HOME environment variable is not set", <<>>)]
    ELSE IF ~io.create_dir_all
    THEN [file |-> file, result |-> Err("failed to create directory {}: {}", <<>>)]
    ELSE WriteToken(file, token, io)

\* Which file system calls of save_token succeed, and the mode a new file
\* gets from the umask.
SaveOutcomes ==
    [create_dir_all : BOOLEAN, write : BOOLEAN, set_permissions : BOOLEAN,
     created : {420, 438}]

\* The `?` after run_oauth_flow always passes.
FlowSucceeded_always(flow) == TRUE

\* The `?` of main.rs:114: run_login goes on to save_token only with Ok.
FlowSucceeded(flow) == flow.kind = "ok"

\* What run_login returns: the error of the step that failed, the error of
\* save_token, or the message with the path (main.rs:113-116).
run_login(flow, save) ==
    IF ~FlowSucceeded(flow) THEN flow
    ELSE IF save.result.kind # "ok" THEN save.result
    ELSE Ok("Token saved to {}")

---------------------------------------------------------------------------
(* Inputs of the login flow: entropy, the peers that connect to the        *)
(* listener, and what the token endpoint answers.                          *)

MaxDiscard == 1
MaxParams == 3

\* What read_exact may leave in the 16-byte buffer of generate_state.
EntropySamples ==
    { [i \in 1..16 |-> 0], [i \in 1..16 |-> (i * 37 + 154) % 256] }

Param(name, value) == [name |-> name, value |-> value]

\* The query parameters a peer may send; st is this attempt's CSRF token.
CallbackParams(st) ==
    { Param(Bytes(<<"c", "o", "d", "e">>), Bytes(<<"A", "1">>)),
      Param(Bytes(<<"c", "o", "d", "e">>), Bytes(<<"B", "2">>)),
      Param(Bytes(<<"c", "o", "d", "e">>), <<>>),
      Param(Bytes(<<"s", "t", "a", "t", "e">>), st),
      Param(Bytes(<<"s", "t", "a", "t", "e">>), Bytes(<<"f", "0", "0", "d">>)),
      Param(Bytes(<<"e", "r", "r", "o", "r">>), Bytes(<<"d", "e", "n", "i", "e", "d">>)) }

\* All sequences of at most n elements of S.
RECURSIVE SeqsUpTo(_, _)
SeqsUpTo(S, n) ==
    IF n = 0 THEN {<<>>}
    ELSE LET shorter == SeqsUpTo(S, n - 1)
         IN  shorter \cup {Append(s, x) : s \in shorter, x \in S}

\* Bytes after the request line: nothing, a byte that is not UTF-8, and the
\* two bytes of U+00E9.
HeaderTails == { <<>>, <<\hFF>>, <<\hC3, \hA9>> }

NoClient == [shape |-> "none", params |-> <<>>, tail |-> <<>>]

\* The peers whose first read yields at least one byte.
Clients(st) ==
    [shape : {"blank", "no_path", "no_query"}, params : {<<>>}, tail : HeaderTails]
    \cup [shape : {"query"}, params : SeqsUpTo(CallbackParams(st), MaxParams),
          tail : HeaderTails]

RECURSIVE RenderQuery(_)
RenderQuery(ps) ==
    IF ps = <<>> THEN <<>>
    ELSE Head(ps).name \o Bytes(<<"=">>) \o Head(ps).value
         \o (IF Len(ps) > 1 THEN Bytes(<<"&">>) ELSE <<>>) \o RenderQuery(Tail(ps))

RequestLineEnd == Bytes(<<" ", "H", "T", "T", "P", "/", "1", ".", "1", "\r", "\n">>)

\* The bytes a peer puts on the wire.
Render(c) ==
    CASE c.shape = "blank" -> Bytes(<<" ">>) \o c.tail
      [] c.shape = "no_path" -> Bytes(<<"G", "E", "T">>) \o c.tail
      [] c.shape = "no_query" ->
            Bytes(<<"G", "E", "T", " ", "/">>) \o RequestLineEnd \o c.tail
      [] c.shape = "query" ->
            Bytes(<<"G", "E", "T", " ", "/", "?">>) \o RenderQuery(c.params)
            \o RequestLineEnd \o c.tail

\* A response body of the token endpoint with what it holds: whether it is
\* JSON, its top-level "ok" ("true", "false", "absent", "other" for a value
\* that is no boolean), its top-level "error" string and the string at
\* authed_user.access_token.
Response(stdout, json, ok, error, token) ==
    [run |-> "exited_ok", stdout |-> stdout, json |-> json, ok |-> ok,
     error |-> error, token |-> token]

NoCurl == [run |-> "none", stdout |-> <<>>, json |-> FALSE, ok |-> "absent",
           error |-> Nothing, token |-> Nothing]

TokenResponses ==
    {
      \* {"ok":true,"authed_user":{"access_token":"T1"}}
      Response(Bytes(<<"{", "\"", "o", "k", "\"", ":", "t", "r", "u", "e", ",",
                         "\"", "a", "u", "t", "h", "e", "d", "_", "u", "s", "e",
                         "r", "\"", ":", "{", "\"", "a", "c", "c", "e", "s", "s",
                         "_", "t", "o", "k", "e", "n", "\"", ":", "\"", "T", "1",
                         "\"", "}", "}">>),
               TRUE, "true", Nothing, Some(Bytes(<<"T", "1">>))),
      \* {"authed_user":{"access_token":"T2"},"ok":true,"error":"e"}
      Response(Bytes(<<"{", "\"", "a", "u", "t", "h", "e", "d", "_", "u", "s",
                         "e", "r", "\"", ":", "{", "\"", "a", "c", "c", "e", "s",
                         "s", "_", "t", "o", "k", "e", "n", "\"", ":", "\"", "T",
                         "2", "\"", "}", ",", "\"", "o", "k", "\"", ":", "t", "r",
                         "u", "e", ",", "\"", "e", "r", "r", "o", "r", "\"", ":",
                         "\"", "e", "\"", "}">>),
               TRUE, "true", Some(Bytes(<<"e">>)), Some(Bytes(<<"T", "2">>))),
      \* {"ok":false,"error":"invalid_code"}
      Response(Bytes(<<"{", "\"", "o", "k", "\"", ":", "f", "a", "l", "s", "e",
                         ",", "\"", "e", "r", "r", "o", "r", "\"", ":", "\"", "i",
                         "n", "v", "a", "l", "i", "d", "_", "c", "o", "d", "e",
                         "\"", "}">>),
               TRUE, "false", Some(Bytes(<<"i", "n", "v", "a", "l", "i", "d", "_", "c", "o", "d", "e">>)), Nothing),
      \* {"ok":false,"error":"bad","authed_user":{"access_token":"T3"}}
      Response(Bytes(<<"{", "\"", "o", "k", "\"", ":", "f", "a", "l", "s", "e",
                         ",", "\"", "e", "r", "r", "o", "r", "\"", ":", "\"", "b",
                         "a", "d", "\"", ",", "\"", "a", "u", "t", "h", "e", "d",
                         "_", "u", "s", "e", "r", "\"", ":", "{", "\"", "a", "c",
                         "c", "e", "s", "s", "_", "t", "o", "k", "e", "n", "\"",
                         ":", "\"", "T", "3", "\"", "}", "}">>),
               TRUE, "false", Some(Bytes(<<"b", "a", "d">>)), Some(Bytes(<<"T", "3">>))),
      \* {"error":"no_ok","authed_user":{"access_token":"T4"}}
      Response(Bytes(<<"{", "\"", "e", "r", "r", "o", "r", "\"", ":", "\"", "n",
                         "o", "_", "o", "k", "\"", ",", "\"", "a", "u", "t", "h",
                         "e", "d", "_", "u", "s", "e", "r", "\"", ":", "{", "\"",
                         "a", "c", "c", "e", "s", "s", "_", "t", "o", "k", "e", "n",
                         "\"", ":", "\"", "T", "4", "\"", "}", "}">>),
               TRUE, "absent", Some(Bytes(<<"n", "o", "_", "o", "k">>)), Some(Bytes(<<"T", "4">>))),
      \* {"ok":"true","authed_user":{"access_token":"T5"}}
      Response(Bytes(<<"{", "\"", "o", "k", "\"", ":", "\"", "t", "r", "u", "e",
                         "\"", ",", "\"", "a", "u", "t", "h", "e", "d", "_", "u",
                         "s", "e", "r", "\"", ":", "{", "\"", "a", "c", "c", "e",
                         "s", "s", "_", "t", "o", "k", "e", "n", "\"", ":", "\"",
                         "T", "5", "\"", "}", "}">>),
               TRUE, "other", Nothing, Some(Bytes(<<"T", "5">>))),
      \* {"ok":1,"error":"one"}
      Response(Bytes(<<"{", "\"", "o", "k", "\"", ":", "1", ",", "\"", "e", "r",
                         "r", "o", "r", "\"", ":", "\"", "o", "n", "e", "\"", "}">>),
               TRUE, "other", Some(Bytes(<<"o", "n", "e">>)), Nothing),
      \* {"ok":null}
      Response(Bytes(<<"{", "\"", "o", "k", "\"", ":", "n", "u", "l", "l", "}">>),
               TRUE, "other", Nothing, Nothing),
      \* {"ok":false}
      Response(Bytes(<<"{", "\"", "o", "k", "\"", ":", "f", "a", "l", "s", "e",
                         "}">>),
               TRUE, "false", Nothing, Nothing),
      \* {"ok":false,"error":7}
      Response(Bytes(<<"{", "\"", "o", "k", "\"", ":", "f", "a", "l", "s", "e",
                         ",", "\"", "e", "r", "r", "o", "r", "\"", ":", "7", "}">>),
               TRUE, "false", Nothing, Nothing),
      \* {"ok":true}
      Response(Bytes(<<"{", "\"", "o", "k", "\"", ":", "t", "r", "u", "e", "}">>),
               TRUE, "true", Nothing, Nothing),
      \* {"ok":true,"authed_user":{}}
      Response(Bytes(<<"{", "\"", "o", "k", "\"", ":", "t", "r", "u", "e", ",",
                         "\"", "a", "u", "t", "h", "e", "d", "_", "u", "s", "e",
                         "r", "\"", ":", "{", "}", "}">>),
               TRUE, "true", Nothing, Nothing),
      \* {"ok":true,"authed_user":{"access_token":null}}
      Response(Bytes(<<"{", "\"", "o", "k", "\"", ":", "t", "r", "u", "e", ",",
                         "\"", "a", "u", "t", "h", "e", "d", "_", "u", "s", "e",
                         "r", "\"", ":", "{", "\"", "a", "c", "c", "e", "s", "s",
                         "_", "t", "o", "k", "e", "n", "\"", ":", "n", "u", "l",
                         "l", "}", "}">>),
               TRUE, "true", Nothing, Nothing),
      \* {"ok":true,"authed_user":"T6"}
      Response(Bytes(<<"{", "\"", "o", "k", "\"", ":", "t", "r", "u", "e", ",",
                         "\"", "a", "u", "t", "h", "e", "d", "_", "u", "s", "e",
                         "r", "\"", ":", "\"", "T", "6", "\"", "}">>),
               TRUE, "true", Nothing, Nothing),
      \* {"ok":true,"access_token":"T7"}
      Response(Bytes(<<"{", "\"", "o", "k", "\"", ":", "t", "r", "u", "e", ",",
                         "\"", "a", "c", "c", "e", "s", "s", "_", "t", "o", "k",
                         "e", "n", "\"", ":", "\"", "T", "7", "\"", "}">>),
               TRUE, "true", Nothing, Nothing),
      \* []
      Response(Bytes(<<"[", "]">>),
               TRUE, "absent", Nothing, Nothing),
      \* <html>
      Response(Bytes(<<"<", "h", "t", "m", "l", ">">>),
               FALSE, "absent", Nothing, Nothing),
      \* {"ok":true
      Response(Bytes(<<"{", "\"", "o", "k", "\"", ":", "t", "r", "u", "e">>),
               FALSE, "absent", Nothing, Nothing)
    }

\* Everything the curl child process may end with.
CurlOutputs ==
    TokenResponses
    \cup { [NoCurl EXCEPT !.run = "spawn_failed"],
           [NoCurl EXCEPT !.run = "exit_nonzero"],
           [NoCurl EXCEPT !.run = "exited_ok", !.stdout = <<\hFF>>] }

---------------------------------------------------------------------------
(* Input texts for the decoder.                                            *)

MaxTokens == 3
MaxUnits == 3
MaxTrail == 2

\* All sequences of at most n elements of S, concatenated.
RECURSIVE Joined(_, _)
Joined(S, n) ==
    IF n = 0 THEN {<<>>}
    ELSE LET shorter == Joined(S, n - 1)
         IN  shorter \cup {s \o x : s \in shorter, x \in S}

\* Token soup: well-formed and malformed documents alike.
JsonTokens ==
    { Bytes(<<"t", "r", "u", "e">>), Bytes(<<"1">>), Bytes(<<"\"", "k", "\"">>),
      Bytes(<<"[">>), Bytes(<<"]">>), Bytes(<<"{">>), Bytes(<<"}">>),
      Bytes(<<":">>), Bytes(<<",">>), Bytes(<<" ">>) }

\* What may stand between the quotes of a string literal.
StringUnits ==
    { Bytes(<<"a">>),
      Bytes(<<"\\", "n">>),
      Bytes(<<"\\", "x">>),
      Bytes(<<"\\", "u", "0", "0", "4", "1">>),
      Bytes(<<"\\", "u", "D", "8", "3", "D">>),
      Bytes(<<"\\", "u", "d", "b", "f", "f">>),
      Bytes(<<"\\", "u", "D", "E", "0", "0">>),
      Bytes(<<"\\", "u", "d", "c", "0", "0">>),
      Bytes(<<"\\", "u", "E", "0", "0", "0">>),
      Bytes(<<"\\", "u", "D", "8">>) }

StringTexts ==
    { Bytes(<<"\"">>) \o body \o close :
        body \in Joined(StringUnits, MaxUnits),
        close \in {<<>>, Bytes(<<"\"">>)} }

\* Complete top-level values, to be followed by trailing bytes.
CompleteValues ==
    { Bytes(<<"t", "r", "u", "e">>),
      Bytes(<<"f", "a", "l", "s", "e">>),
      Bytes(<<"n", "u", "l", "l">>),
      Bytes(<<"-", "1", ".", "5", "e", "2">>),
      Bytes(<<"\"", "k", "\"">>),
      Bytes(<<"[", "1", ",", " ", "t", "r", "u", "e", "]">>),
      Bytes(<<"{", "\"", "k", "\"", ":", "1", "}">>),
      Bytes(<<" ", "[", "]">>) }

TrailBytes ==
    { Bytes(<<" ">>), Bytes(<<"\t">>), Bytes(<<"\n">>), Bytes(<<"\r">>),
      Bytes(<<"f">>), Bytes(<<"]">>) }

TrailedTexts == { v \o t : v \in CompleteValues, t \in Joined(TrailBytes, MaxTrail) }

JsonInputs == Joined(JsonTokens, MaxTokens) \cup StringTexts \cup TrailedTexts

NoLabel == [kind |-> "none"]

\* The escape \uXXXX of the 16-bit number n, in lowercase hex digits.
UnicodeEscape(n) ==
    Bytes(<<"\\", "u">>)
    \o << HexLower[(n \div 4096) + 1], HexLower[((n \div 256) % 16) + 1],
          HexLower[((n \div 16) % 16) + 1], HexLower[(n % 16) + 1] >>

HighSamples == {\hD800, \hD83D, \hDBFF}
LowSamples == {\hDC00, \hDE00, \hDFFF}
ScalarSamples == {0, \h41, \hE9, \h20AC, \hD7FF, \hE000, \hFFFF}

\* String literals that hold one surrogate pair or one other escape.
EscapeDocs ==
    { [text |-> Bytes(<<"\"">>) \o UnicodeEscape(h) \o UnicodeEscape(l)
                \o Bytes(<<"\"">>),
       label |-> [kind |-> "pair", high |-> h, low |-> l]] :
         h \in HighSamples, l \in LowSamples }
    \cup
    { [text |-> Bytes(<<"\"">>) \o UnicodeEscape(c) \o Bytes(<<"\"">>),
       label |-> [kind |-> "single", cp |-> c]] : c \in ScalarSamples }

\* The bytes written after a backslash: the six simple escapes, the two of
\* RFC 8259 the parser has no arm for (b, f), and bytes that start no escape.
EscapeFollowers ==
    { Ascii["\""], Ascii["\\"], Ascii["/"], Ascii["n"], Ascii["r"], Ascii["t"],
      Ascii["b"], Ascii["f"], Ascii["x"], Ascii["N"], Ascii["0"], Ascii[" "],
      0, \hFF }

\* String literals with one backslash and one byte after it.
FollowerDocs ==
    { [text |-> Bytes(<<"\"", "\\">>) \o <<x>> \o Bytes(<<"\"">>),
       label |-> [kind |-> "escape", follower |-> x]] : x \in EscapeFollowers }

\* What is written after "\u": up to four of these bytes (g is no hex
\* digit), then the closing quote or the end of the text.
HexSamples == { Ascii["4"], Ascii["f"], Ascii["A"], Ascii["g"] }

HexDocs ==
    { [text |-> Bytes(<<"\"", "\\", "u">>) \o ds
                \o (IF closed THEN Bytes(<<"\"">>) ELSE <<>>),
       label |-> [kind |-> "hex", digits |-> ds, closed |-> closed]] :
         ds \in SeqsUpTo(HexSamples, 4), closed \in BOOLEAN }

\* String literals that end without a closing quote.
OpenUnits ==
    { Bytes(<<"a">>), Bytes(<<"\\", "n">>), Bytes(<<"\\", "\"">>),
      Bytes(<<"\\", "\\">>) }

OpenDocs ==
    { [text |-> Bytes(<<"\"">>) \o body, label |-> [kind |-> "open"]] :
         body \in Joined(OpenUnits, 2) }

\* Number texts put together from a sign, an integer part, a fraction, an
\* exponent and what follows, each of them present, absent or cut short.
NumberSigns == { <<>>, Bytes(<<"-">>), Bytes(<<"+">>) }
NumberInts == { <<>>, Bytes(<<"1">>), Bytes(<<"0", "7">>) }
NumberFracs == { <<>>, Bytes(<<".">>), Bytes(<<".", "5">>) }
NumberExps ==
    { <<>>, Bytes(<<"e">>), Bytes(<<"E", "1">>), Bytes(<<"e", "+">>),
      Bytes(<<"E", "-", "2">>), Bytes(<<"e", "+", "1", "0">>) }
NumberTrails ==
    { <<>>, Bytes(<<"x">>), Bytes(<<".">>), Bytes(<<"e">>), Bytes(<<"-">>) }

NumberDocs ==
    { [text |-> t, label |-> [kind |-> "number"]] :
        t \in { s \o i \o f \o e \o x :
                  s \in NumberSigns, i \in NumberInts, f \in NumberFracs,
                  e \in NumberExps, x \in NumberTrails } \ {<<>>} }

MaxPairs == 3

\* A pair of an object text: its key and which value is written after it.
PairLabels ==
    [key : {Bytes(<<"k">>), Bytes(<<"j">>)}, value : {"one", "true", "str"}]

ValueText(v) ==
    CASE v = "one" -> Bytes(<<"1">>)
      [] v = "true" -> Bytes(<<"t", "r", "u", "e">>)
      [] v = "str" -> Bytes(<<"\"", "k", "\"">>)

RECURSIVE RenderPairs(_)
RenderPairs(ps) ==
    IF ps = <<>> THEN <<>>
    ELSE Bytes(<<"\"">>) \o Head(ps).key \o Bytes(<<"\"", ":">>)
         \o ValueText(Head(ps).value)
         \o (IF Len(ps) > 1 THEN Bytes(<<",">>) ELSE <<>>) \o RenderPairs(Tail(ps))

\* Object texts with up to MaxPairs pairs, keys repeated or not.
ObjectDocs ==
    { [text |-> Bytes(<<"{">>) \o RenderPairs(ps) \o Bytes(<<"}">>),
       label |-> [kind |-> "object", pairs |-> ps]] :
         ps \in SeqsUpTo(PairLabels, MaxPairs) }

\* Texts with characters that take two and three bytes in UTF-8: U+00E9
\* and U+20AC, in a string, as a key and in an array.
Utf8Docs ==
    { [text |-> Bytes(<<"\"">>) \o <<\hC3, \hA9>> \o Bytes(<<"\"">>),
       label |-> [kind |-> "utf8", chars |-> <<\hE9>>]],
      [text |-> Bytes(<<"\"", "a">>) \o <<\hE2, \h82, \hAC>> \o Bytes(<<"b", "\"">>),
       label |-> [kind |-> "utf8", chars |-> <<\h61, \h20AC, \h62>>]],
      [text |-> Bytes(<<"{", "\"">>) \o <<\hC3, \hA9>> \o Bytes(<<"\"", ":", "1", "}">>),
       label |-> [kind |-> "utf8_key", chars |-> <<\hE9>>]],
      [text |-> Bytes(<<"[", "\"">>) \o <<\hE2, \h82, \hAC>> \o Bytes(<<"\"", "]">>),
       label |-> [kind |-> "utf8_item", chars |-> <<\h20AC>>]] }

JsonDocs ==
    { [text |-> t, label |-> NoLabel] : t \in JsonInputs }
    \cup EscapeDocs \cup ObjectDocs \cup Utf8Docs
    \cup FollowerDocs \cup HexDocs \cup OpenDocs \cup NumberDocs

LookupKeys == {Bytes(<<"k">>), Bytes(<<"j">>), Bytes(<<"z">>)}

---------------------------------------------------------------------------
(* The decoder applied to one text.                                        *)

NotParsed == [kind |-> "none", pos |-> 0, val |-> None, message |-> ""]

OAuthIdle ==
    /\ pc = "start"
    /\ state = <<>>
    /\ listener = "unbound"
    /\ browser = FALSE
    /\ discarded = 0
    /\ client = NoClient
    /\ conn = <<>>
    /\ request = <<>>
    /\ responded = <<>>
    /\ params = NoResult
    /\ exchanged = <<>>
    /\ curl = NoCurl
    /\ result = NoResult

\* get was not called.
NotLooked == [t |-> "NotLooked"]

JsonIdle ==
    /\ input = <<>>
    /\ label = NoLabel
    /\ parsed = NotParsed
    /\ lookup_key = <<>>
    /\ looked_up = NotLooked
    /\ reparsed = NotParsed

NoResponse == [text |-> <<>>, kind |-> "none"]

MessageIdle ==
    /\ raw_json = NoResponse
    /\ called = "none"
    /\ extracted = NoResult

NoUrl == [text |-> <<>>, segments |-> <<>>]

UrlIdle ==
    /\ slack_url = NoUrl
    /\ thread = NoResult

NoFile == [home |-> TRUE, exists |-> FALSE, mode |-> 0, content |-> <<>>]

NoSave == [token |-> <<>>, result |-> NoResult]

ConfigIdle ==
    /\ credentials = NoFile
    /\ saved = NoSave
    /\ loaded = NoResult
    /\ last_op = "none"
    /\ ops = 0

\* No parse is in progress.
NoParser ==
    [pos |-> 0, frames |-> <<>>, status |-> "none", message |-> "", steps |-> 0,
     hex |-> 0, cp |-> 0, high |-> -1]

StepIdle == parser = NoParser

TimeIdle ==
    /\ unix_ts = [text |-> <<>>, kind |-> "none", days |-> 0, tod |-> 0]
    /\ formatted = NoResult

CliIdle == MessageIdle /\ UrlIdle /\ ConfigIdle /\ StepIdle /\ TimeIdle

JsonInit ==
    /\ overflow_checks \in BOOLEAN
    /\ \E d \in JsonDocs : input = d.text /\ label = d.label
    /\ parsed = NotParsed
    /\ lookup_key = <<>>
    /\ looked_up = NotLooked
    /\ reparsed = NotParsed
    /\ OAuthIdle
    /\ CliIdle

\* A caller hands input to json::parse.
Parse ==
    /\ parsed.kind = "none"
    /\ parsed' = parse(input)
    /\ UNCHANGED <<overflow_checks, input, label, lookup_key, looked_up,
                   reparsed, cliVars, oauthVars>>

\* A caller looks a key up in the value parse returned.
Lookup ==
    /\ parsed.kind = "ok"
    /\ looked_up = NotLooked
    /\ reparsed = NotParsed
    /\ \E k \in LookupKeys :
          /\ lookup_key' = k
          /\ looked_up' = get(parsed.val, k)
    /\ UNCHANGED <<overflow_checks, input, label, parsed, reparsed, cliVars,
                   oauthVars>>

\* The value parse returned is written back as JSON text and parsed again.
Reparse ==
    /\ parsed.kind = "ok"
    /\ looked_up = NotLooked
    /\ reparsed = NotParsed
    /\ reparsed' = parse(encode(parsed.val))
    /\ UNCHANGED <<overflow_checks, input, label, parsed, lookup_key, looked_up,
                   cliVars, oauthVars>>

JsonNext == Parse \/ Lookup \/ Reparse

SpecJson == JsonInit /\ [][JsonNext]_vars

---------------------------------------------------------------------------
(* json.rs: json::parse loop by loop.  parser.pos is Parser::pos, and      *)
(* parser.frames the loops and calls that are open, innermost first: "ws"  *)
(* skip_whitespace, "value" parse_value at its match, "string" the loop of *)
(* parse_string, "digits_*" the loop of consume_digits for the three digit *)
(* runs of parse_number, "object_*" and "array_*" parse_object and         *)
(* parse_array, "end" json::parse after parse_value.  parser.steps counts  *)
(* the steps taken; parser.hex, parser.cp and parser.high are the locals   *)
(* of a \u escape: the digits read, val, and cp while low is read (-1     *)
(* otherwise).                                                             *)

\* The step leaves the cursor at pos with the frames fs open.
Goto(p, pos, fs) ==
    [p EXCEPT !.pos = pos, !.frames = fs, !.steps = p.steps + 1]

\* The step ends the parse: Err(self.error(msg)) propagated by ? to the
\* caller of parse, or a panic.
Stop(p, r) ==
    [pos |-> r.pos, frames |-> <<>>, status |-> r.kind, message |-> r.message,
     steps |-> p.steps + 1, hex |-> 0, cp |-> 0, high |-> -1]

\* The step made the call that returned r: on Ok the frames fs go on.
Continue(p, r, fs) == IF r.kind = "ok" THEN Goto(p, r.pos, fs) ELSE Stop(p, r)

\* Arrays and objects inside one another, with whitespace between the tokens.
NestedTexts ==
    { Bytes(<<"[", " ", "[", "1", ",", "[", "]", "]", " ", ",", " ", "{",
              "\"", "k", "\"", " ", ":", "{", "}", "}", "]", " ">>),
      Bytes(<<"{", "\"", "k", "\"", ":", "[", "n", "u", "l", "l", ",",
              "-", "1", ".", "5", "e", "2", "]", ",", " ", "\"", "j", "\"",
              ":", "f", "a", "l", "s", "e", " ", "}">>) }

\* The texts parsed loop by loop.
StepInputs ==
    { d.text : d \in EscapeDocs \cup ObjectDocs \cup Utf8Docs \cup FollowerDocs
                     \cup OpenDocs \cup NumberDocs }
    \cup { t \in StringTexts : Len(t) <= 14 }
    \cup TrailedTexts \cup Joined(JsonTokens, 2) \cup NestedTexts

StepInit ==
    /\ overflow_checks \in BOOLEAN
    /\ JsonIdle
    /\ OAuthIdle
    /\ CliIdle

\* json::parse is called with a text: Parser::new, then parse_value, which
\* starts with skip_whitespace.
NewParser ==
    /\ parser.status = "none"
    /\ input' \in StepInputs
    /\ parser' = [NoParser EXCEPT !.frames = <<"ws", "value", "ws", "end">>,
                                  !.status = "running"]
    /\ UNCHANGED <<overflow_checks, label, parsed, lookup_key, looked_up,
                   reparsed, oauthVars, messageVars, urlVars, configVars,
                   timeVars>>

\* The frame a step is taken in.
Running(tops) == parser.status = "running" /\ Head(parser.frames) \in tops

Callers == Tail(parser.frames)

StepTaken(p) ==
    /\ parser' = p
    /\ UNCHANGED <<overflow_checks, jsonVars, oauthVars, messageVars, urlVars,
                   configVars, timeVars>>

\* One test of the while loop of Parser::skip_whitespace.
SkipWhitespaceStep ==
    /\ Running({"ws"})
    /\ StepTaken(IF parser.pos < Len(input) /\ IsWs(input[parser.pos + 1])
                 THEN Goto(parser, parser.pos + 1, parser.frames)
                 ELSE Goto(parser, parser.pos, Callers))

\* Parser::parse_number up to the while loop of its first consume_digits.
NumberStart(p, pos) ==
    IF pos >= Len(input) \/ ~IsDigit(input[pos + 1])
    THEN Stop(p, PErr(pos, "expected digit"))
    ELSE Goto(p, pos, <<"digits_int">> \o Tail(p.frames))

\* The match of Parser::parse_value, the whitespace skipped.
ValueStep ==
    /\ Running({"value"})
    /\ StepTaken(
         IF parser.pos >= Len(input)
         THEN Stop(parser, PErr(parser.pos, "unexpected end of input"))
         ELSE IF input[parser.pos + 1] = Ascii["\""]
         THEN Goto(parser, parser.pos + 1, <<"string">> \o Callers)
         ELSE IF input[parser.pos + 1] = Ascii["{"]
         THEN Goto(parser, parser.pos + 1, <<"ws", "object_open">> \o Callers)
         ELSE IF input[parser.pos + 1] = Ascii["["]
         THEN Goto(parser, parser.pos + 1, <<"ws", "array_open">> \o Callers)
         ELSE IF input[parser.pos + 1] \in {Ascii["t"], Ascii["f"]}
         THEN Continue(parser, parse_bool(input, parser.pos), Callers)
         ELSE IF input[parser.pos + 1] = Ascii["n"]
         THEN Continue(parser, parse_null(input, parser.pos), Callers)
         ELSE IF input[parser.pos + 1] = Ascii["-"]
         THEN NumberStart(parser, parser.pos + 1)
         ELSE IF IsDigit(input[parser.pos + 1])
         THEN NumberStart(parser, parser.pos)
         ELSE Stop(parser, PErr(parser.pos, "unexpected character")))

\* The byte after a backslash, read by the advance that returned e.
EscapeStep(p, e) ==
    IF e.kind # "ok" THEN Stop(p, e)
    ELSE IF e.val \in {Ascii["\""], Ascii["\\"], Ascii["/"], Ascii["n"],
                       Ascii["r"], Ascii["t"]}
    THEN Goto(p, e.pos, p.frames)
    ELSE IF e.val = Ascii["u"]
    THEN Goto(p, e.pos, <<"hex">> \o p.frames)
    ELSE Stop(p, PErr(e.pos, "invalid escape"))

\* One iteration of the loop of Parser::parse_string.
StringStep ==
    /\ Running({"string"})
    /\ StepTaken(
         IF parser.pos >= Len(input)
         THEN Stop(parser, PErr(parser.pos, "unexpected end of input"))
         ELSE IF input[parser.pos + 1] = Ascii["\""]
         THEN Goto(parser, parser.pos + 1, Callers)
         ELSE IF input[parser.pos + 1] = Ascii["\\"]
         THEN EscapeStep(parser, advance(input, parser.pos + 1))
         ELSE Goto(parser, parser.pos + 1, parser.frames))

\* The character of a \u escape was pushed, or the escape failed with r.
Pushed(p, r) ==
    IF r.kind # "ok" THEN Stop(p, r)
    ELSE [p EXCEPT !.pos = r.pos, !.frames = Tail(p.frames), !.hex = 0, !.cp = 0,
                   !.high = -1, !.steps = p.steps + 1]

\* Lines 98-100: after a high surrogate cp, "\u" is expected (u after the
\* backslash b) and parse_unicode_escape is called again.
SecondEscape(p, cp, b) ==
    IF b.kind # "ok" THEN Stop(p, b)
    ELSE IF expect(input, b.pos, Ascii["u"]).kind # "ok"
    THEN Stop(p, expect(input, b.pos, Ascii["u"]))
    ELSE [p EXCEPT !.pos = b.pos + 1, !.hex = 0, !.cp = 0, !.high = cp,
                   !.steps = p.steps + 1]

\* parse_unicode_escape returned Ok(cp) with the cursor at pos: lines 97-110.
EscapeRead(p, pos, cp) ==
    IF p.high >= 0 THEN Pushed(p, CombineSurrogates(p.high, POk(pos, cp)))
    ELSE IF cp >= \hD800 /\ cp <= \hDBFF
    THEN SecondEscape(p, cp, expect(input, pos, Ascii["\\"]))
    ELSE IF ~IsChar(cp) THEN Stop(p, PErr(pos, "invalid unicode codepoint"))
    ELSE Pushed(p, POk(pos, cp))

\* One iteration of the for loop of Parser::parse_unicode_escape.
HexStep ==
    /\ Running({"hex"})
    /\ StepTaken(
         IF parser.pos >= Len(input)
         THEN Stop(parser, PErr(parser.pos, "unexpected end of input"))
         ELSE IF HexDigit(input[parser.pos + 1]) < 0
         THEN Stop(parser, PErr(parser.pos + 1, "invalid unicode escape hex digit"))
         ELSE IF parser.hex < 3
         THEN [parser EXCEPT !.pos = parser.pos + 1, !.hex = parser.hex + 1,
                             !.cp = parser.cp * 16 + HexDigit(input[parser.pos + 1]),
                             !.steps = parser.steps + 1]
         ELSE EscapeRead(parser, parser.pos + 1,
                         parser.cp * 16 + HexDigit(input[parser.pos + 1])))

\* Parser::parse_number, lines 145-151, after the digits of the integer or
\* of the fraction.
ExponentStart(p, pos) ==
    IF peek_matches(input, pos, Ascii["e"]) \/ peek_matches(input, pos, Ascii["E"])
    THEN Continue(p, consume_digits(input, AfterExpSign(input, pos + 1)),
                  <<"digits_exp">> \o Tail(p.frames))
    ELSE Goto(p, pos, Tail(p.frames))

\* Parser::parse_number after the while loop of a consume_digits was left.
AfterDigits(p) ==
    IF Head(p.frames) = "digits_exp" THEN Goto(p, p.pos, Tail(p.frames))
    ELSE IF Head(p.frames) = "digits_int" /\ peek_matches(input, p.pos, Ascii["."])
    THEN Continue(p, consume_digits(input, p.pos + 1),
                  <<"digits_frac">> \o Tail(p.frames))
    ELSE ExponentStart(p, p.pos)

\* One test of the while loop of Parser::consume_digits.
DigitStep ==
    /\ Running({"digits_int", "digits_frac", "digits_exp"})
    /\ StepTaken(IF parser.pos < Len(input) /\ IsDigit(input[parser.pos + 1])
                 THEN Goto(parser, parser.pos + 1, parser.frames)
                 ELSE AfterDigits(parser))

\* The same match, ',' left in the input for the next iteration.
Separator_rereads(p, c, close, again, msg) ==
    IF c.kind # "ok" THEN Stop(p, c)
    ELSE IF c.val = close THEN Goto(p, c.pos, Tail(p.frames))
    ELSE IF c.val = Ascii[","] THEN Goto(p, c.pos - 1, <<"ws">> \o p.frames)
    ELSE Stop(p, PErr(c.pos, msg))

\* The match at the end of an iteration of the loop of parse_object or of
\* parse_array: close ends it, ',' starts the next iteration with again.
Separator(p, c, close, again, msg) ==
    IF c.kind # "ok" THEN Stop(p, c)
    ELSE IF c.val = close THEN Goto(p, c.pos, Tail(p.frames))
    ELSE IF c.val = Ascii[","] THEN Goto(p, c.pos, again \o Tail(p.frames))
    ELSE Stop(p, PErr(c.pos, msg))

\* Parser::parse_object between the calls it makes: after '{' and the
\* whitespace, at the key, at the ':' and after the value.
ObjectStep ==
    /\ Running({"object_open", "object_key", "object_colon", "object_sep"})
    /\ StepTaken(
         CASE Head(parser.frames) = "object_open" ->
                IF peek_matches(input, parser.pos, Ascii["}"])
                THEN Goto(parser, parser.pos + 1, Callers)
                ELSE Goto(parser, parser.pos, <<"ws", "object_key">> \o Callers)
           [] Head(parser.frames) = "object_key" ->
                Continue(parser, expect(input, parser.pos, Ascii["\""]),
                         <<"string", "ws", "object_colon">> \o Callers)
           [] Head(parser.frames) = "object_colon" ->
                Continue(parser, expect(input, parser.pos, Ascii[":"]),
                         <<"ws", "value", "ws", "object_sep">> \o Callers)
           [] Head(parser.frames) = "object_sep" ->
                Separator(parser, advance(input, parser.pos), Ascii["}"],
                          <<"ws", "object_key">>, "expected ',' or '}' in object"))

\* Parser::parse_array between the calls it makes: after '[' and the
\* whitespace, and after an item.
ArrayStep ==
    /\ Running({"array_open", "array_sep"})
    /\ StepTaken(
         IF Head(parser.frames) = "array_open"
         THEN IF peek_matches(input, parser.pos, Ascii["]"])
              THEN Goto(parser, parser.pos + 1, Callers)
              ELSE Goto(parser, parser.pos,
                        <<"ws", "value", "ws", "array_sep">> \o Callers)
         ELSE Separator(parser, advance(input, parser.pos), Ascii["]"],
                        <<"ws", "value", "ws", "array_sep">>,
                        "expected ',' or ']' in array"))

\* json::parse, lines 47-50.
TrailingStep ==
    /\ Running({"end"})
    /\ StepTaken(IF parser.pos < Len(input)
                 THEN Stop(parser, PErr(parser.pos, "unexpected trailing content"))
                 ELSE Stop(parser, POk(parser.pos, None)))

StepNext ==
    \/ NewParser
    \/ SkipWhitespaceStep
    \/ ValueStep
    \/ StringStep
    \/ HexStep
    \/ DigitStep
    \/ ObjectStep
    \/ ArrayStep
    \/ TrailingStep

\* parse runs on the thread of its caller, which nothing suspends: while
\* the parse is under way its next step is taken.
SpecSteps == StepInit /\ [][StepNext]_vars /\ WF_vars(StepNext)

---------------------------------------------------------------------------
(* message.rs: format_unix_ts.  An i64 number of seconds is held as its    *)
(* sign, its quotient by 86400 and the remainder, computed digit by digit, *)
(* so that no intermediate number leaves the range of the checker's        *)
(* integers; this covers magnitudes below 86400 * 2^31.                    *)

Dot == Ascii["."]

\* ts_str.split('.').next(): the text before the first '.'.
SecondsText(ts_str) ==
    IF \E i \in 1..Len(ts_str) : ts_str[i] = Dot
    THEN SubSeq(ts_str, 1, (CHOOSE i \in 1..Len(ts_str) :
                               /\ ts_str[i] = Dot
                               /\ \A j \in 1..(i - 1) : ts_str[j] # Dot) - 1)
    ELSE ts_str

\* The digits of a text handed to i64::from_str, after its optional sign.
Magnitude(s) ==
    IF s # <<>> /\ s[1] \in {Ascii["+"], Ascii["-"]} THEN Tail(s) ELSE s

RECURSIVE StripZeros(_)
StripZeros(ds) ==
    IF Len(ds) > 1 /\ ds[1] = Ascii["0"] THEN StripZeros(Tail(ds)) ELSE ds

\* i64::MAX, and the magnitude of i64::MIN.
I64Max == Bytes(<<"9", "2", "2", "3", "3", "7", "2", "0", "3", "6", "8", "5",
                  "4", "7", "7", "5", "8", "0", "7">>)
I64MinMagnitude == Bytes(<<"9", "2", "2", "3", "3", "7", "2", "0", "3", "6",
                           "8", "5", "4", "7", "7", "5", "8", "0", "8">>)

\* a <= b for two digit texts of the same length.
DigitsLeq(a, b) ==
    \A i \in 1..Len(a) : (\A j \in 1..(i - 1) : a[j] = b[j]) => a[i] <= b[i]

\* The number is in the range of i64 (from_str fails with PosOverflow or
\* NegOverflow otherwise).
FitsI64(s) ==
    \/ Len(StripZeros(Magnitude(s))) < 19
    \/ /\ Len(StripZeros(Magnitude(s))) = 19
       /\ DigitsLeq(StripZeros(Magnitude(s)),
                    IF s[1] = Ascii["-"] THEN I64MinMagnitude ELSE I64Max)

\* The quotient and remainder by 86400 of the digits ds from the i-th on,
\* q and r being those of the digits before.
RECURSIVE DivRem(_, _, _, _)
DivRem(ds, i, q, r) ==
    IF i > Len(ds) THEN [q |-> q, r |-> r]
    ELSE DivRem(ds, i + 1,
                q * 10 + (r * 10 + (ds[i] - Ascii["0"])) \div 86400,
                (r * 10 + (ds[i] - Ascii["0"])) % 86400)

Secs(neg, qr) == [neg |-> neg /\ (qr.q # 0 \/ qr.r # 0), q |-> qr.q, r |-> qr.r]

\* s.parse::<i64>(): an optional sign and one or more ASCII digits, in range.
parse_i64(s) ==
    IF /\ Magnitude(s) # <<>>
       /\ \A i \in 1..Len(Magnitude(s)) : IsDigit(Magnitude(s)[i])
       /\ FitsI64(s)
    THEN Some(Secs(s[1] = Ascii["-"], DivRem(Magnitude(s), 1, 0, 0)))
    ELSE Nothing

\* .unwrap_or(0)
SecsOrZero(parsed_secs) ==
    IF parsed_secs.some THEN parsed_secs.v ELSE [neg |-> FALSE, q |-> 0, r |-> 0]

\* secs.rem_euclid(86400) and secs.div_euclid(86400)
rem_euclid(secs) == IF secs.neg THEN (86400 - secs.r) % 86400 ELSE secs.r
div_euclid(secs) ==
    IF ~secs.neg THEN secs.q
    ELSE IF secs.r = 0 THEN -secs.q
    ELSE -secs.q - 1

\* The / of i64: the quotient rounded toward zero (b > 0).
TruncDiv(a, b) == IF a >= 0 THEN a \div b ELSE -((-a) \div b)

\* civil_from_days, lines 23-32, for z = days + 719468.
Era(z) == TruncDiv(IF z >= 0 THEN z ELSE z - 146096, 146097)
Doe(z) == z - Era(z) * 146097

\* yoe without the terms for the centuries.
Yoe_julian(z) == (Doe(z) - Doe(z) \div 1460) \div 365

Yoe(z) ==
    (Doe(z) - Doe(z) \div 1460 + Doe(z) \div 36524 - Doe(z) \div 146096) \div 365
Doy(z) == Doe(z) - (365 * Yoe(z) + Yoe(z) \div 4 - Yoe(z) \div 100)
Mp(z) == (5 * Doy(z) + 2) \div 153
DayOfMonth(z) == Doy(z) - (153 * Mp(z) + 2) \div 5 + 1
Month(z) == IF Mp(z) < 10 THEN Mp(z) + 3 ELSE Mp(z) - 9
Year(z) == Yoe(z) + Era(z) * 400 + (IF Month(z) <= 2 THEN 1 ELSE 0)

\* The decimal digits of n >= 0.
RECURSIVE Decimal(_)
Decimal(n) ==
    IF n < 10 THEN <<Ascii["0"] + n>>
    ELSE Append(Decimal(n \div 10), Ascii["0"] + (n % 10))

\* format!("{:0w$}", n) for n >= 0: zeros on the left up to the width w.
RECURSIVE ZeroPadded(_, _)
ZeroPadded(ds, w) == IF Len(ds) >= w THEN ds ELSE ZeroPadded(<<Ascii["0"]>> \o ds, w)

\* {:02} of a number in 0..99, and {:04} of an i64 (the sign counts for the
\* width).
Pad02(n) == ZeroPadded(Decimal(n), 2)
Pad04(n) ==
    IF n >= 0 THEN ZeroPadded(Decimal(n), 4)
    ELSE Bytes(<<"-">>) \o ZeroPadded(Decimal(-n), 3)

\* Lines 34-37: the format! of the six numbers.
FormatTime(z, time_of_day) ==
    Pad04(Year(z)) \o Bytes(<<"-">>) \o Pad02(Month(z)) \o Bytes(<<"-">>)
    \o Pad02(DayOfMonth(z)) \o Bytes(<<" ">>)
    \o Pad02(time_of_day \div 3600) \o Bytes(<<":">>)
    \o Pad02((time_of_day % 3600) \div 60) \o Bytes(<<":">>)
    \o Pad02(time_of_day % 60)

FormatSecs(secs) == FormatTime(div_euclid(secs) + 719468, rem_euclid(secs))

\* format_unix_ts
format_unix_ts(ts_str) == FormatSecs(SecsOrZero(parse_i64(SecondsText(ts_str))))

\* Days since 1970-01-01: around the ends of February in years that are and
\* are not leap years, the ends of years, 2026-02-10, 2038-01-19, and the
\* last day of the year 9999 with the day after it.
DaySamples ==
    { 0, 1, 58, 59, 364, 365, 789, 790, 1095, 1096, 10956, 10957, 11015, 11016,
      11017, 11322, 19782, 20089, 20128, 20494, 24855, 24856, 47540, 47541,
      47846, 2932896, 2932897 }

\* Seconds since midnight.
TimeSamples == { 0, 1, 59, 60, 3599, 3600, 8287, 43200, 86399 }

\* What is written after the seconds.
FractionSamples ==
    { <<>>, Bytes(<<".", "5", "6", "5", "2", "4", "9">>), Bytes(<<".">>),
      Bytes(<<".", "x", ".", "1">>) }

\* The decimal digits of days * 86400 + tod, the product taken in two parts.
SecondsDigits(days, tod) ==
    StripZeros(Decimal(days * 86 + (days * 4 + tod \div 100) \div 10)
               \o <<Ascii["0"] + ((days * 4 + tod \div 100) % 10)>>
               \o Pad02(tod % 100))

\* Texts that i64::from_str refuses though they may look like numbers, and
\* whole numbers beyond i64::MAX.
NonNumericTexts ==
    { <<>>, Bytes(<<"a", "b", "c">>), Bytes(<<"1", "2", "a">>), Bytes(<<" ", "1">>),
      Bytes(<<"1", "e", "3">>), Bytes(<<".", "5">>), Bytes(<<"+">>),
      Bytes(<<"-">>), Bytes(<<"0", "x", "1", "0">>), Bytes(<<"1", " ">>) }

TooLargeTexts ==
    { Bytes(<<"9", "2", "2", "3", "3", "7", "2", "0", "3", "6", "8", "5",
              "4", "7", "7", "5", "8", "0", "8">>),
      Bytes(<<"1", "0", "0", "0", "0", "0", "0", "0", "0", "0", "0", "0",
              "0", "0", "0", "0", "0", "0", "0", "0">>) }

NegativeTexts ==
    { Bytes(<<"-", "1">>), Bytes(<<"-", "8", "6", "4", "0", "0">>),
      Bytes(<<"-", "8", "6", "4", "0", "1">>),
      Bytes(<<"-", "6", "2", "1", "6", "7", "2", "1", "9", "2", "0", "1">>),
      Bytes(<<"-", "0">>) }

TimestampTexts ==
    { [text |-> SecondsDigits(days, tod) \o frac, kind |-> "seconds",
       days |-> days, tod |-> tod] :
         days \in DaySamples, tod \in TimeSamples, frac \in FractionSamples }
    \cup { [text |-> Bytes(<<"+", "0">>) \o SecondsDigits(days, 8287),
            kind |-> "seconds", days |-> days, tod |-> 8287] : days \in DaySamples }
    \cup { [text |-> t, kind |-> "nonnumeric", days |-> 0, tod |-> 0] :
             t \in NonNumericTexts }
    \cup { [text |-> t, kind |-> "too_large", days |-> 0, tod |-> 0] :
             t \in TooLargeTexts }
    \cup { [text |-> t, kind |-> "negative", days |-> 0, tod |-> 0] :
             t \in NegativeTexts }

TimeInit ==
    /\ overflow_checks \in BOOLEAN
    /\ JsonIdle
    /\ OAuthIdle
    /\ MessageIdle
    /\ UrlIdle
    /\ ConfigIdle
    /\ StepIdle
    /\ unix_ts \in TimestampTexts
    /\ formatted = NoResult

\* format_messages formats the ts of a message (main.rs:83).
FormatUnixTs ==
    /\ formatted = NoResult
    /\ formatted' = Ok(format_unix_ts(unix_ts.text))
    /\ UNCHANGED <<overflow_checks, jsonVars, oauthVars, messageVars, urlVars,
                   configVars, stepVars, unix_ts>>

TimeNext == FormatUnixTs

SpecTime == TimeInit /\ [][TimeNext]_vars

---------------------------------------------------------------------------
(* oauth.rs: run_oauth_flow, one action per step.                          *)

\* The credentials file an earlier login left behind.
StoredCredentials ==
    [home |-> TRUE, exists |-> TRUE, mode |-> 420,
     content |-> Bytes(<<"x", "o", "x", "p", "-", "0">>)]

\* run_login is entered (main.rs:112).
OAuthInit ==
    /\ overflow_checks \in BOOLEAN
    /\ JsonIdle
    /\ OAuthIdle
    /\ MessageIdle
    /\ UrlIdle
    /\ StepIdle
    /\ TimeIdle
    /\ credentials = StoredCredentials
    /\ saved = NoSave
    /\ loaded = NoResult
    /\ last_op = "none"
    /\ ops = 0

\* load_client_credentials succeeded (main.rs:113).
LoadClientCredentials ==
    /\ pc = "start"
    /\ pc' = "generate_state"
    /\ UNCHANGED <<overflow_checks, jsonVars, cliVars, state, listener, browser,
                   discarded, client, conn, request, responded, params,
                   exchanged, curl, result>>

\* load_client_credentials failed (config.rs:82-99).
LoadClientCredentialsFails ==
    /\ pc = "start"
    /\ \E msg \in {"HOME environment variable is not set",
                    "client_id and client_secret are required. Set SLK_CLIENT_ID/SLK_CLIENT_SECRET or create ~/.config/slk/config.json",
                    "JSON parse error at position {}: {}",
                    "missing 'client_id' in config.json",
                    "missing 'client_secret' in config.json"} :
          result' = Err(msg, <<>>)
    /\ pc' = "done"
    /\ UNCHANGED <<overflow_checks, jsonVars, cliVars, state, listener, browser,
                   discarded, client, conn, request, responded, params,
                   exchanged, curl>>

\* generate_state succeeded (line 167).
GenerateState ==
    /\ pc = "generate_state"
    /\ \E buf \in EntropySamples : state' = generate_state(buf)
    /\ pc' = "build_tls"
    /\ UNCHANGED <<overflow_checks, jsonVars, cliVars, listener, browser, discarded,
                   client, conn, request, responded, params, exchanged, curl,
                   result>>

\* /dev/urandom could not be opened or read.
GenerateStateFails ==
    /\ pc = "generate_state"
    /\ \E msg \in {"failed to open /dev/urandom: {}", "failed to read /dev/urandom: {}"} :
          result' = Err(msg, <<>>)
    /\ pc' = "done"
    /\ UNCHANGED <<overflow_checks, jsonVars, cliVars, state, listener, browser,
                   discarded, client, conn, request, responded, params,
                   exchanged, curl>>

\* build_tls_config succeeded (line 168).
BuildTlsConfig ==
    /\ pc = "build_tls"
    /\ pc' = "open_browser"
    /\ UNCHANGED <<overflow_checks, jsonVars, cliVars, state, listener, browser,
                   discarded, client, conn, request, responded, params,
                   exchanged, curl, result>>

BuildTlsConfigFails ==
    /\ pc = "build_tls"
    /\ \E msg \in {"failed to generate key pair: {}",
                   "failed to create cert params: {}",
                   "failed to generate self-signed cert: {}",
                   "failed to build TLS config: {}"} :
          result' = Err(msg, <<>>)
    /\ pc' = "done"
    /\ UNCHANGED <<overflow_checks, jsonVars, cliVars, state, listener, browser,
                   discarded, client, conn, request, responded, params,
                   exchanged, curl>>

\* Lines 170-180: the authorization URL is printed and xdg-open is spawned;
\* whether the spawn worked is ignored.
OpenBrowser ==
    /\ pc = "open_browser"
    /\ browser' = TRUE
    /\ pc' = "bind"
    /\ UNCHANGED <<overflow_checks, jsonVars, cliVars, state, listener, discarded,
                   client, conn, request, responded, params, exchanged, curl,
                   result>>

\* wait_for_callback: TcpListener::bind succeeded.
Bind ==
    /\ pc = "bind"
    /\ listener' = "bound"
    /\ pc' = "accept"
    /\ UNCHANGED <<overflow_checks, jsonVars, cliVars, state, browser, discarded,
                   client, conn, request, responded, params, exchanged, curl,
                   result>>

BindFails ==
    /\ pc = "bind"
    /\ result' = Err("failed to bind port 9876: {}", <<>>)
    /\ pc' = "done"
    /\ UNCHANGED <<overflow_checks, jsonVars, cliVars, state, listener, browser,
                   discarded, client, conn, request, responded, params,
                   exchanged, curl>>

\* accept or ServerConnection::new returned an error: wait_for_callback
\* returns it and the listener is dropped.
AcceptFails ==
    /\ pc = "accept"
    /\ \E msg \in {"failed to accept connection: {}",
                   "failed to create TLS connection: {}"} :
          result' = Err(msg, <<>>)
    /\ listener' = "closed"
    /\ pc' = "done"
    /\ UNCHANGED <<overflow_checks, jsonVars, cliVars, state, browser, discarded,
                   client, conn, request, responded, params, exchanged, curl>>

\* The loop with the success page written before n is looked at.
DropConnectionResponds ==
    /\ pc = "accept"
    /\ discarded < MaxDiscard
    /\ \E outcome \in {"read_error", "zero_bytes"} : discarded' = discarded + 1
    /\ responded' = Append(responded, discarded + 1)
    /\ UNCHANGED <<overflow_checks, jsonVars, cliVars, pc, state, listener, browser,
                   client, conn, request, params, exchanged, curl, result>>

\* A connection whose read failed (the TLS handshake included) or returned
\* Ok(0): `_ => continue`.
DropConnection ==
    /\ pc = "accept"
    /\ discarded < MaxDiscard
    /\ \E outcome \in {"read_error", "zero_bytes"} : discarded' = discarded + 1
    /\ UNCHANGED <<overflow_checks, jsonVars, cliVars, pc, state, listener, browser,
                   client, conn, request, responded, params, exchanged, curl,
                   result>>

\* A connection whose read returned n > 0 bytes (n <= 2048, the size of buf),
\* Render(c): the success page is written to it, responded lists the
\* connections (numbered in the order accepted) that were sent the page, and
\* wait_for_callback returns the text, which drops the listener.
ReadRequest ==
    /\ pc = "accept"
    /\ \E c \in Clients(state) :
          /\ Len(Render(c)) <= 2048
          /\ client' = c
          /\ conn' = Render(c)
          /\ request' = from_utf8_lossy(Render(c))
    /\ responded' = Append(responded, discarded + 1)
    /\ listener' = "closed"
    /\ pc' = "extract"
    /\ UNCHANGED <<overflow_checks, jsonVars, cliVars, state, browser, discarded,
                   params, exchanged, curl, result>>

\* run_oauth_flow going back to wait for another connection when the request
\* carries no code/state pair.
ValidateCallbackRetries ==
    /\ pc = "extract"
    /\ params' = extract_callback_params(request)
    /\ IF params'.kind # "ok"
       THEN result' = result /\ pc' = "accept"
       ELSE IF ~state_matches(params'.val[2], state)
       THEN /\ result' = Err("state mismatch: possible CSRF attack. Please try again.", <<>>)
            /\ pc' = "done"
       ELSE result' = result /\ pc' = "exchange"
    /\ UNCHANGED <<overflow_checks, jsonVars, cliVars, state, listener, browser,
                   discarded, client, conn, request, responded, exchanged,
                   curl>>

\* Lines 183-189: extract_callback_params and the state comparison.
ValidateCallback ==
    /\ pc = "extract"
    /\ params' = extract_callback_params(request)
    /\ IF params'.kind # "ok"
       THEN result' = params' /\ pc' = "done"
       ELSE IF ~state_matches(params'.val[2], state)
       THEN /\ result' = Err("state mismatch: possible CSRF attack. Please try again.", <<>>)
            /\ pc' = "done"
       ELSE result' = result /\ pc' = "exchange"
    /\ UNCHANGED <<overflow_checks, jsonVars, cliVars, state, listener, browser,
                   discarded, client, conn, request, responded, exchanged,
                   curl>>

\* Line 191: exchange_code runs curl and reads its answer.
ExchangeCode ==
    /\ pc = "exchange"
    /\ exchanged' = Append(exchanged, params.val[1])
    /\ \E out \in CurlOutputs :
          /\ curl' = out
          /\ result' = exchange_code(out)
    /\ pc' = "done"
    /\ UNCHANGED <<overflow_checks, jsonVars, cliVars, state, listener, browser,
                   discarded, client, conn, request, responded, params>>

\* run_login hands the token of the flow to save_token (main.rs:115).
SaveLoginToken ==
    /\ pc = "done"
    /\ FlowSucceeded(result)
    /\ \E io \in SaveOutcomes :
          /\ credentials' = save_token(credentials, result.val, io).file
          /\ saved' = [token |-> result.val,
                       result |-> save_token(credentials, result.val, io).result]
    /\ last_op' = "save"
    /\ ops' = ops + 1
    /\ pc' = "returned"
    /\ UNCHANGED <<overflow_checks, jsonVars, stepVars, timeVars,
                   messageVars, urlVars, loaded, state,
                   listener, browser, discarded, client, conn, request,
                   responded, params, exchanged, curl, result>>

Next ==
    \/ LoadClientCredentials
    \/ LoadClientCredentialsFails
    \/ GenerateState
    \/ GenerateStateFails
    \/ BuildTlsConfig
    \/ BuildTlsConfigFails
    \/ OpenBrowser
    \/ Bind
    \/ BindFails
    \/ AcceptFails
    \/ DropConnection
    \/ ReadRequest
    \/ ValidateCallback
    \/ ExchangeCode
    \/ SaveLoginToken

Spec == OAuthInit /\ [][Next]_vars

---------------------------------------------------------------------------
(* message.rs: API response bodies.  Each body is written from a           *)
(* description of what it holds, which is kept beside the text: a member   *)
(* is absent, a string, or some other JSON value given as its text.        *)

MaxMessages == 2
MaxChannels == 2

FieldAbsent == [is |-> "absent"]
FieldString(s) == [is |-> "string", s |-> s]
FieldOther(text) == [is |-> "other", text |-> text]
FieldArray(items) == [is |-> "array", items |-> items]
FieldObject(members) == [is |-> "object", members |-> members]

\* "name":value, or nothing for an absent member.
Member(name, text) ==
    <<Bytes(<<"\"">>) \o Bytes(name) \o Bytes(<<"\"", ":">>) \o text>>

StringMember(name, f) ==
    IF f.is = "absent" THEN <<>>
    ELSE IF f.is = "string"
    THEN Member(name, Bytes(<<"\"">>) \o f.s \o Bytes(<<"\"">>))
    ELSE Member(name, f.text)

ObjectText(members) == Bytes(<<"{">>) \o CommaJoined(members) \o Bytes(<<"}">>)

ArrayText(items) == Bytes(<<"[">>) \o CommaJoined(items) \o Bytes(<<"]">>)

\* The elements a messages array may hold: objects with each of user,
\* username and bot_id absent or a string, objects with a member that is
\* not a string or with text or ts absent, and an element that is no object.
MessageLabels ==
    { [raw |-> <<>>, user |-> u, username |-> n, bot_id |-> b,
       text |-> FieldString(Bytes(<<"h", "i">>)),
       ts |-> FieldString(Bytes(<<"1", ".", "2">>))] :
         u \in {FieldAbsent, FieldString(Bytes(<<"U", "1">>))},
         n \in {FieldAbsent, FieldString(Bytes(<<"n", "m">>))},
         b \in {FieldAbsent, FieldString(Bytes(<<"B", "7">>))} }
    \cup
    { [raw |-> <<>>, user |-> FieldOther(Bytes(<<"n", "u", "l", "l">>)),
       username |-> FieldAbsent, bot_id |-> FieldString(Bytes(<<"B", "7">>)),
       text |-> FieldAbsent, ts |-> FieldString(Bytes(<<"9">>))],
      [raw |-> <<>>, user |-> FieldString(Bytes(<<"U", "2">>)),
       username |-> FieldOther(Bytes(<<"1">>)), bot_id |-> FieldAbsent,
       text |-> FieldOther(Bytes(<<"1">>)), ts |-> FieldAbsent],
      [raw |-> Bytes(<<"7">>), user |-> FieldAbsent, username |-> FieldAbsent,
       bot_id |-> FieldAbsent, text |-> FieldAbsent, ts |-> FieldAbsent] }

MessageText(m) ==
    IF m.raw # <<>> THEN m.raw
    ELSE ObjectText(StringMember(<<"u", "s", "e", "r", "n", "a", "m", "e">>, m.username)
                    \o StringMember(<<"t", "s">>, m.ts)
                    \o StringMember(<<"b", "o", "t", "_", "i", "d">>, m.bot_id)
                    \o StringMember(<<"u", "s", "e", "r">>, m.user)
                    \o StringMember(<<"t", "e", "x", "t">>, m.text))

ChannelLabels ==
    { [id |-> i, name |-> n] :
         i \in {FieldAbsent, FieldString(Bytes(<<"C", "1">>))},
         n \in {FieldAbsent, FieldString(Bytes(<<"d", "e", "v">>)),
                FieldOther(Bytes(<<"n", "u", "l", "l">>))} }

ChannelText(c) ==
    ObjectText(StringMember(<<"i", "d">>, c.id)
               \o StringMember(<<"n", "a", "m", "e">>, c.name))

\* The user objects of a users.info response.
UserLabels ==
    { [raw |-> <<>>, profile |-> p, real_name |-> r, name |-> n] :
         p \in {FieldAbsent, FieldOther(Bytes(<<"n", "u", "l", "l">>)),
                FieldObject(FieldAbsent), FieldObject(FieldString(<<>>)),
                FieldObject(FieldString(Bytes(<<"d", "n">>))),
                FieldObject(FieldOther(Bytes(<<"1">>)))},
         r \in {FieldAbsent, FieldString(<<>>), FieldString(Bytes(<<"r", "n">>))},
         n \in {FieldAbsent, FieldString(<<>>), FieldString(Bytes(<<"n", "0">>))} }
    \cup
    { [raw |-> Bytes(<<"n", "u", "l", "l">>), profile |-> FieldAbsent,
       real_name |-> FieldAbsent, name |-> FieldAbsent] }

ProfileMember(p) ==
    IF p.is = "object"
    THEN Member(<<"p", "r", "o", "f", "i", "l", "e">>,
                ObjectText(StringMember(<<"d", "i", "s", "p", "l", "a", "y", "_", "n", "a", "m", "e">>,
                                        p.members)))
    ELSE StringMember(<<"p", "r", "o", "f", "i", "l", "e">>, p)

UserText(u) ==
    IF u.raw # <<>> THEN u.raw
    ELSE ObjectText(StringMember(<<"n", "a", "m", "e">>, u.name)
                    \o ProfileMember(u.profile)
                    \o StringMember(<<"r", "e", "a", "l", "_", "n", "a", "m", "e">>, u.real_name))

\* The text of the member holding an array of elements or something else.
ArrayMember(name, f, ElementText(_)) ==
    IF f.is = "array"
    THEN Member(name, ArrayText([i \in 1..Len(f.items) |-> ElementText(f.items[i])]))
    ELSE StringMember(name, f)

UserMember(f) ==
    IF f.is = "object" THEN Member(<<"u", "s", "e", "r">>, UserText(f.members))
    ELSE <<>>

OkMember(ok) ==
    CASE ok = "true" -> Member(<<"o", "k">>, Bytes(<<"t", "r", "u", "e">>))
      [] ok = "false" -> Member(<<"o", "k">>, Bytes(<<"f", "a", "l", "s", "e">>))
      [] ok = "string" ->
            Member(<<"o", "k">>, Bytes(<<"\"", "f", "a", "l", "s", "e", "\"">>))
      [] ok = "number" -> Member(<<"o", "k">>, Bytes(<<"0">>))
      [] OTHER -> <<>>

\* A response body described by d, with its text.
ApiResponse(d) ==
    [kind |-> "api", ok |-> d.ok, error |-> d.error, needed |-> d.needed,
     provided |-> d.provided, messages |-> d.messages, channels |-> d.channels,
     user |-> d.user,
     text |-> ObjectText(OkMember(d.ok)
                         \o StringMember(<<"e", "r", "r", "o", "r">>, d.error)
                         \o StringMember(<<"n", "e", "e", "d", "e", "d">>, d.needed)
                         \o StringMember(<<"p", "r", "o", "v", "i", "d", "e", "d">>, d.provided)
                         \o ArrayMember(<<"m", "e", "s", "s", "a", "g", "e", "s">>,
                                        d.messages, MessageText)
                         \o ArrayMember(<<"c", "h", "a", "n", "n", "e", "l", "s">>,
                                        d.channels, ChannelText)
                         \o UserMember(d.user))]

NoPayload ==
    [messages |-> FieldAbsent, channels |-> FieldAbsent, user |-> FieldAbsent]

\* The payloads of successful calls: a messages array, a channels array or
\* a user, or a member of that name that is something else.
Payloads ==
    { [NoPayload EXCEPT !.messages = FieldArray(ms)] :
          ms \in SeqsUpTo(MessageLabels, MaxMessages) }
    \cup { [NoPayload EXCEPT !.channels = FieldArray(cs)] :
              cs \in SeqsUpTo(ChannelLabels, MaxChannels) }
    \cup { [NoPayload EXCEPT !.user = FieldObject(u)] : u \in UserLabels }
    \cup { NoPayload,
           [NoPayload EXCEPT !.messages = FieldOther(Bytes(<<"{", "}">>)),
                             !.channels = FieldString(Bytes(<<"c">>))] }

FullPayload ==
    [messages |-> FieldArray(<<CHOOSE m \in MessageLabels : m.raw # <<>> >>),
     channels |-> FieldArray(<<CHOOSE c \in ChannelLabels : c.id.is = "string">>),
     user |-> FieldObject(CHOOSE u \in UserLabels :
                              u.raw = <<>> /\ u.name.is = "string" /\ u.name.s # <<>>)]

\* Bodies with "ok" true, and bodies with "ok" false, absent or not a
\* boolean, with and without error, needed and provided.
ApiResponses ==
    { ApiResponse([ok |-> "true", error |-> FieldAbsent, needed |-> FieldAbsent,
                   provided |-> FieldAbsent, messages |-> p.messages,
                   channels |-> p.channels, user |-> p.user]) : p \in Payloads }
    \cup
    { ApiResponse([ok |-> ok, error |-> e, needed |-> n, provided |-> pr,
                   messages |-> p.messages, channels |-> p.channels,
                   user |-> p.user]) :
          ok \in {"false", "absent", "string", "number"},
          e \in {FieldAbsent, FieldString(Bytes(<<"n", "o", "_", "s", "c", "o", "p", "e">>)),
                 FieldOther(Bytes(<<"4", "0", "3">>))},
          n \in {FieldAbsent, FieldString(Bytes(<<"u", "s", "e", "r", "s", ":", "r", "e", "a", "d">>)),
                 FieldOther(Bytes(<<"n", "u", "l", "l">>))},
          pr \in {FieldAbsent, FieldString(Bytes(<<"c", "h", "a", "t", ",", "i", "m">>))},
          p \in {NoPayload, FullPayload} }

---------------------------------------------------------------------------
(* main.rs: an API response is parsed and handed to one of the functions   *)
(* of message.rs.                                                          *)

ApiInit ==
    /\ overflow_checks \in BOOLEAN
    /\ JsonIdle
    /\ OAuthIdle
    /\ UrlIdle
    /\ ConfigIdle
    /\ StepIdle
    /\ TimeIdle
    /\ raw_json \in ApiResponses
    /\ called = "none"
    /\ extracted = NoResult

\* run_show_thread and run_show_history (main.rs:122-123, 143-144).
ExtractMessages ==
    /\ called = "none"
    /\ called' = "extract_messages"
    /\ extracted' = AfterJsonParse(parse(raw_json.text),
                                   extract_messages(parse(raw_json.text).val))
    /\ UNCHANGED <<overflow_checks, jsonVars, stepVars, timeVars,
                   oauthVars, urlVars, configVars, raw_json>>

\* run_list_conversations (main.rs:131-132).
ExtractConversations ==
    /\ called = "none"
    /\ called' = "extract_conversations"
    /\ extracted' = AfterJsonParse(parse(raw_json.text),
                                   extract_conversations(parse(raw_json.text).val))
    /\ UNCHANGED <<overflow_checks, jsonVars, stepVars, timeVars,
                   oauthVars, urlVars, configVars, raw_json>>

\* resolve_user_names, for one user (main.rs:105-106).
ResolveUserName ==
    /\ called = "none"
    /\ called' = "resolve_user_name"
    /\ extracted' = AfterJsonParse(parse(raw_json.text),
                                   resolve_user_name(parse(raw_json.text).val))
    /\ UNCHANGED <<overflow_checks, jsonVars, stepVars, timeVars,
                   oauthVars, urlVars, configVars, raw_json>>

ApiNext == ExtractMessages \/ ExtractConversations \/ ResolveUserName

SpecApi == ApiInit /\ [][ApiNext]_vars

---------------------------------------------------------------------------
(* url.rs: the URLs handed to parse_slack_url, each written from its       *)
(* segments after the host.                                                *)

MaxSegments == 3

\* Path segments: names, channel ids, and timestamp segments that are well
\* formed, too short, without the p, with characters of several bytes, or
\* followed by a query string.
UrlSegments ==
    { Archives,
      Bytes(<<"m", "e", "s", "s", "a", "g", "e", "s">>),
      Bytes(<<"C", "0", "8", "1", "V", "T", "5">>),
      <<>>,
      Bytes(<<"p", "1", "7", "7", "0", "6", "8", "9", "8", "8", "7",
              "5", "6", "5", "2", "4", "9">>),
      Bytes(<<"p", "1", "2", "3", "4", "5", "6", "7", "8", "9", "0", "1">>),
      Bytes(<<"p", "1", "2", "3", "4", "5", "6", "7", "8", "9", "0">>),
      Bytes(<<"1", "7", "7", "0", "6", "8", "9", "8", "8", "7",
              "5", "6", "5", "2", "4", "9">>),
      Bytes(<<"p">>),
      Bytes(<<"p">>) \o <<\hE9>> \o Bytes(<<"1", "2", "3", "4", "5", "6", "7", "8", "9">>),
      Bytes(<<"p", "1", "2", "3", "4", "5", "6", "7", "8", "9">>) \o <<\hE9>>
          \o Bytes(<<"1">>),
      Bytes(<<"p", "1", "7", "7", "0", "6", "8", "9", "8", "8", "7",
              "5", "6", "5", "2", "4", "9", "?", "t", "h", "r", "e", "a", "d",
              "_", "t", "s", "=", "1">>) }

UrlHost ==
    Bytes(<<"h", "t", "t", "p", "s", ":", "/", "/", "m", "y", "t", "e", "a", "m",
            ".", "s", "l", "a", "c", "k", ".", "c", "o", "m">>)

SlackUrls ==
    { [text |-> UrlHost \o Concat([i \in 1..Len(segs) |-> Bytes(<<"/">>) \o segs[i]]),
       segments |-> segs] : segs \in SeqsUpTo(UrlSegments, MaxSegments) }

UrlInit ==
    /\ overflow_checks \in BOOLEAN
    /\ JsonIdle
    /\ OAuthIdle
    /\ MessageIdle
    /\ ConfigIdle
    /\ StepIdle
    /\ TimeIdle
    /\ slack_url \in SlackUrls
    /\ thread = NoResult

\* parse_args hands the first argument to parse_slack_url (main.rs:41).
ParseSlackUrl ==
    /\ thread = NoResult
    /\ thread' = parse_slack_url(slack_url.text)
    /\ UNCHANGED <<overflow_checks, jsonVars, stepVars, timeVars,
                   oauthVars, messageVars, configVars,
                   slack_url>>

UrlNext == ParseSlackUrl

SpecUrl == UrlInit /\ [][UrlNext]_vars

---------------------------------------------------------------------------
(* config.rs: tokens, credentials files and the calls made on them.        *)

MaxOps == 2

\* Tokens handed to save_token: plain, with a space inside, with leading or
\* trailing whitespace, empty, whitespace only, and with characters of
\* several bytes, one of them the whitespace U+00A0.
Tokens ==
    { Bytes(<<"x", "o", "x", "p", "-", "1">>),
      Bytes(<<"a", " ", "b">>),
      Bytes(<<" ", "x", "o", "x", "p">>),
      Bytes(<<"x", "o", "x", "p", "\n">>),
      <<>>,
      Bytes(<<" ", "\n">>),
      <<\hE9>>,
      <<\hA0>> \o Bytes(<<"t">>),
      Bytes(<<"\t">>) \o <<\h3000>> }

\* The credentials files a call may find: none, or one left by an earlier
\* run or written by hand, with or without a base directory in the
\* environment.
CredentialsFiles ==
    { [NoFile EXCEPT !.home = h] : h \in BOOLEAN }
    \cup
    { [home |-> h, exists |-> TRUE, mode |-> m, content |-> c] :
          h \in BOOLEAN, m \in {420, Mode0600, 256},
          c \in {as_bytes(t) : t \in Tokens} \cup {<<\hFF>>} }

ConfigInit ==
    /\ overflow_checks \in BOOLEAN
    /\ JsonIdle
    /\ OAuthIdle
    /\ MessageIdle
    /\ UrlIdle
    /\ StepIdle
    /\ TimeIdle
    /\ credentials \in CredentialsFiles
    /\ saved = NoSave
    /\ loaded = NoResult
    /\ last_op = "none"
    /\ ops = 0

\* run_login stores a token (main.rs:115).
SaveToken ==
    /\ ops < MaxOps
    /\ \E token \in Tokens, io \in SaveOutcomes :
          /\ credentials' = save_token(credentials, token, io).file
          /\ saved' = [token |-> token,
                       result |-> save_token(credentials, token, io).result]
    /\ last_op' = "save"
    /\ ops' = ops + 1
    /\ UNCHANGED <<overflow_checks, jsonVars, stepVars, timeVars,
                   oauthVars, messageVars, urlVars,
                   loaded>>

\* resolve_token reads the stored token (main.rs:62).
LoadToken ==
    /\ ops < MaxOps
    /\ loaded' = load_token(credentials)
    /\ last_op' = IF last_op = "save" THEN "load_after_save" ELSE "load"
    /\ ops' = ops + 1
    /\ UNCHANGED <<overflow_checks, jsonVars, stepVars, timeVars,
                   oauthVars, messageVars, urlVars,
                   credentials, saved>>

ConfigNext == SaveToken \/ LoadToken

SpecConfig == ConfigInit /\ [][ConfigNext]_vars

---------------------------------------------------------------------------
(* Properties of the login flow, checked under Spec.  They are stated over *)
(* what the peer sent (client) and what the token endpoint answered (curl),*)
(* not over the operators that read them.                                  *)

NameCode == Bytes(<<"c", "o", "d", "e">>)
NameState == Bytes(<<"s", "t", "a", "t", "e">>)

\* The positions of the query parameters of c called name, and of those with
\* a value.
Named(c, name) == {i \in 1..Len(c.params) : c.params[i].name = name}
NamedWithValue(c, name) == {i \in Named(c, name) : c.params[i].value # <<>>}

\* The value of the first parameter called name that has a value.
FirstValue(c, name) ==
    c.params[CHOOSE i \in NamedWithValue(c, name) :
                \A j \in NamedWithValue(c, name) : i <= j].value

StateMismatchMessage == "state mismatch: possible CSRF attack. Please try again."

\* C1: when the state of the callback differs from the token generated at the
\* start of the attempt, exchange_code is never run (no code was handed to
\* it, curl never ran) and the attempt ends with the state-mismatch error.
MismatchNeverExchanges ==
    (params.kind = "ok" /\ params.val[2] # state) =>
        /\ exchanged = <<>>
        /\ curl = NoCurl
        /\ pc = "done"
        /\ result = Err(StateMismatchMessage, <<>>)

\* C1 witness: a callback with a code and a foreign state ended the attempt.
MismatchSeen ==
    /\ pc = "done"
    /\ params.kind = "ok"
    /\ params.val[2] = Bytes(<<"f", "0", "0", "d">>)
    /\ params.val[2] # state
    /\ result.message = StateMismatchMessage

\* C2 as stated: the listener is closed, or the attempt ended, on a request
\* only if that request carried both a code and a state.
ListenerOpenUntilValidPair ==
    (request # <<>> /\ (listener = "closed" \/ pc = "done")) =>
        /\ NamedWithValue(client, NameCode) # {}
        /\ NamedWithValue(client, NameState) # {}

\* C2 amended: the listener stays open, and the attempt goes on without a
\* result, only while the connections accepted yield no bytes.  The first
\* request that is read closes the listener whatever it carries, no further
\* connection is accepted, and a request without code or without state ends
\* the attempt with an error and without a code exchange.
ListenerOpenUntilReadable ==
    /\ pc = "accept" =>
          listener = "bound" /\ request = <<>> /\ result = NoResult
    /\ request # <<>> => listener = "closed" /\ pc # "accept"
    /\ ( /\ pc = "done"
         /\ request # <<>>
         /\ \/ NamedWithValue(client, NameCode) = {}
            \/ NamedWithValue(client, NameState) = {} ) =>
          result.kind = "err" /\ exchanged = <<>>

\* C2 witness: after discarded connections, a readable request without a
\* query string closed the listener and ended the attempt.
ClosedOnRequestWithoutQuery ==
    /\ discarded >= 1
    /\ client.shape = "no_query"
    /\ listener = "closed"
    /\ pc = "done"
    /\ result.message = "no query string in callback"

\* What from_utf8_lossy makes of the bytes after the request line.
DecodedTail(tail) ==
    CASE tail = <<>> -> <<>>
      [] tail = <<\hFF>> -> <<\hFFFD>>
      [] tail = <<\hC3, \hA9>> -> <<\hE9>>

\* C3 as stated: what wait_for_callback returns is exactly the bytes read.
ReturnsExactBytes == request # <<>> => as_bytes(request) = conn

\* C3 amended: connections whose read fails or yields zero bytes produce no
\* error and get no response, and the loop is back at accept; only the first
\* connection with a read of at least one byte is answered, and the function
\* returns the lossy UTF-8 decoding of the bytes of that one read (a byte
\* sequence that is not UTF-8 becomes U+FFFD), which is those bytes
\* themselves when they are valid UTF-8.
DiscardsUntilFirstRead ==
    /\ pc = "accept" =>
          /\ result = NoResult
          /\ responded = <<>>
          /\ request = <<>>
          /\ listener = "bound"
    /\ request # <<>> =>
          /\ responded = <<discarded + 1>>
          /\ Len(conn) >= 1
          /\ request = SubSeq(conn, 1, Len(conn) - Len(client.tail))
                       \o DecodedTail(client.tail)
          /\ client.tail # <<\hFF>> => as_bytes(request) = conn

\* C3 witness: after discarded connections a request with a byte that is not
\* UTF-8 was returned.
LossyRequestReturned ==
    /\ discarded >= 1
    /\ pc = "extract"
    /\ client.shape = "query"
    /\ client.tail = <<\hFF>>
    /\ request[Len(request)] = \hFFFD

\* C4 as stated: of repeated code (or state) parameters the first one is
\* returned (the first with a value: one without a value is skipped).
FirstOccurrenceWins ==
    params.kind = "ok" =>
        /\ params.val[1] = FirstValue(client, NameCode)
        /\ params.val[2] = FirstValue(client, NameState)

\* C5: a request with state but no code fails naming 'code', one with code
\* but no state fails naming 'state', one without a second token or without
\* '?' fails, and none of them yields a pair.
MissingParamsAreErrors ==
    params.kind # "none" =>
        /\ client.shape \in {"blank", "no_path"} =>
              params = Err("invalid HTTP request", <<>>)
        /\ client.shape = "no_query" =>
              params = Err("no query string in callback", <<>>)
        /\ ( /\ client.shape = "query"
             /\ Named(client, NameCode) = {}
             /\ NamedWithValue(client, NameState) # {} ) =>
              params = Err("no 'code' parameter in callback. Authorization may have been denied.", <<>>)
        /\ ( /\ client.shape = "query"
             /\ NamedWithValue(client, NameCode) # {}
             /\ Named(client, NameState) = {} ) =>
              params = Err("no 'state' parameter in callback", <<>>)

\* C5 witness: a query with a state and no code was refused.
MissingCodeSeen ==
    /\ client.shape = "query"
    /\ Named(client, NameCode) = {}
    /\ NamedWithValue(client, NameState) # {}
    /\ params.kind = "err"
    /\ pc = "done"

\* C6: a token is returned only for a JSON answer whose "ok" is true and
\* whose authed_user.access_token is a string; an answer whose "ok" is
\* absent, false or no boolean fails with its "error" string (or 'unknown
\* error'); one whose "ok" is true without the token fails with the
\* missing-access-token error.
ExchangeCodeContract ==
    curl.run = "exited_ok" =>
        /\ result.kind = "ok" =>
              /\ curl.json
              /\ curl.ok = "true"
              /\ curl.token.some
              /\ result.val = curl.token.v
        /\ (curl.json /\ curl.ok # "true") =>
              result = Err("oauth.v2.access failed: {}",
                           IF curl.error.some THEN curl.error.v ELSE UnknownError)
        /\ (curl.json /\ curl.ok = "true" /\ ~curl.token.some) =>
              result = Err("missing authed_user.access_token in response", <<>>)

\* C6 witness: an answer without "ok" that holds a token was refused with its
\* error string.
TokenWithoutOkRefused ==
    /\ pc = "done"
    /\ curl.json
    /\ curl.ok = "absent"
    /\ curl.token.some
    /\ curl.error.some
    /\ result.detail = curl.error.v

\* C7 as stated: the listener is bound before the URL is printed and the
\* browser launched.
BoundBeforeBrowser == browser => listener # "unbound"

---------------------------------------------------------------------------
(* Properties of the decoder, checked under SpecJson.                      *)

Quote == Bytes(<<"\"">>)

\* C8: when bytes follow the complete top-level value, parse fails if one of
\* them is not space, tab, LF or CR, and returns the value otherwise.
TrailingContentIsError ==
    parsed.kind # "none" =>
        /\ \A v \in CompleteValues, t \in Joined(TrailBytes, MaxTrail) :
              input = v \o t =>
                 IF \E i \in 1..Len(t) : t[i] \notin {32, 9, 10, 13}
                 THEN parsed.kind = "err"
                      /\ parsed.message = "unexpected trailing content"
                 ELSE parsed.kind = "ok" /\ parsed.val = parse_value(v, 0).val
        /\ parse_value(input, 0).kind = "ok" =>
              IF \E i \in (parse_value(input, 0).pos + 1)..Len(input) :
                    input[i] \notin {32, 9, 10, 13}
              THEN parsed.kind = "err"
              ELSE parsed.kind = "ok" /\ parsed.val = parse_value(input, 0).val

\* C8 witness: "true" followed by whitespace and then another byte failed.
TrailingContentSeen ==
    /\ input = Bytes(<<"t", "r", "u", "e", " ", "f">>)
    /\ parsed.kind = "err"
    /\ parsed.pos = 5

\* C9 as stated: parse always ends with a value or an error value.
ParseNeverPanics == parsed.kind \in {"none", "ok", "err"}

HighEscapes ==
    { Bytes(<<"\\", "u", "D", "8", "3", "D">>),
      Bytes(<<"\\", "u", "d", "b", "f", "f">>) }

LowEscapes ==
    { Bytes(<<"\\", "u", "D", "E", "0", "0">>),
      Bytes(<<"\\", "u", "d", "c", "0", "0">>) }

\* C10 as stated: a high-surrogate escape followed by the end of the string,
\* an ordinary character or an escape that is no low surrogate is an error.
UnmatchedHighIsError ==
    parsed.kind # "none" =>
        \A h \in HighEscapes, f \in (StringUnits \ LowEscapes) \cup {<<>>} :
            input = Quote \o h \o f \o Quote => parsed.kind = "err"

\* The JsonValue a written value stands for.
ValueTree(v) ==
    CASE v = "one" -> JNumber(Bytes(<<"1">>))
      [] v = "true" -> JBool(TRUE)
      [] v = "str" -> JString(Bytes(<<"k">>))

\* C11: a high surrogate escape H followed by a low surrogate escape L is
\* one character, 0x10000 + (H - 0xD800) * 1024 + (L - 0xDC00), and one
\* escape outside the surrogate ranges is the character with that number.
SurrogatePairsCombine ==
    parsed.kind # "none" =>
        /\ label.kind = "pair" =>
              /\ parsed.kind = "ok"
              /\ parsed.val =
                    JString(<< \h10000 + ((label.high - \hD800) * 1024)
                               + (label.low - \hDC00) >>)
        /\ label.kind = "single" =>
              parsed.kind = "ok" /\ parsed.val = JString(<<label.cp>>)
        /\ input = Quote \o Bytes(<<"\\", "u", "D", "8", "3", "D",
                                    "\\", "u", "D", "E", "0", "0">>) \o Quote =>
              parsed.val = JString(<<\h1F600>>)
        /\ input = Quote \o Bytes(<<"\\", "u", "0", "0", "4", "1">>) \o Quote =>
              parsed.val = JString(<<65>>)

\* C11 witness: the largest pair was read as U+10FFFF.
LargestPairDecoded ==
    /\ label.kind = "pair"
    /\ label.high = \hDBFF
    /\ label.low = \hDFFF
    /\ parsed.val = JString(<<\h10FFFF>>)

\* The positions of the pairs of the object text whose key is k.
Hits(k) == {i \in 1..Len(label.pairs) : label.pairs[i].key = k}

\* C12: an object keeps its pairs in the order written, duplicates included;
\* get returns the value of the first pair with the key, and none when no
\* pair has the key or the value is no object.
GetReturnsFirstPair ==
    /\ (label.kind = "object" /\ parsed.kind # "none") =>
          /\ parsed.kind = "ok"
          /\ parsed.val =
                JObject([i \in 1..Len(label.pairs) |->
                            <<label.pairs[i].key, ValueTree(label.pairs[i].value)>>])
          /\ looked_up # NotLooked =>
                looked_up =
                   IF Hits(lookup_key) = {} THEN None
                   ELSE ValueTree(label.pairs[
                           CHOOSE i \in Hits(lookup_key) :
                              \A j \in Hits(lookup_key) : i <= j].value)
    /\ (looked_up # NotLooked /\ parsed.val.t # "Object") => looked_up = None

\* C12 witness: a key written twice with different values was looked up.
DuplicateKeyLookedUp ==
    /\ label.kind = "object"
    /\ looked_up # NotLooked
    /\ \E i, j \in Hits(lookup_key) :
          /\ i < j
          /\ label.pairs[i].value # label.pairs[j].value
          /\ \A h \in Hits(lookup_key) : i <= h
          /\ looked_up = ValueTree(label.pairs[i].value)

\* The texts that are JSON by RFC 8259 among those with a label.
ValidJsonText ==
    label.kind \in {"pair", "single", "object", "utf8", "utf8_key", "utf8_item"}

\* C13 as stated: the tree parsed from a valid text, written back as text and
\* parsed again, is the same tree.
RoundTripStable ==
    (ValidJsonText /\ reparsed.kind # "none") =>
        reparsed.kind = "ok" /\ reparsed.val = parsed.val

\* The reasons Parser::error is called with.
ParseErrorReasons ==
    { "unexpected end of input", "expected X, found Y", "expected digit",
      "expected 'true' or 'false'", "expected 'null'",
      "invalid unicode escape hex digit", "invalid surrogate pair",
      "invalid unicode codepoint", "invalid escape", "unexpected character",
      "expected ',' or ']' in array", "expected ',' or '}' in object",
      "unexpected trailing content" }

\* C14 as stated: every failure of parse is an error with a position P,
\* 0 <= P <= len(input), and a reason (the text 'JSON parse error at position
\* P: reason'), and it comes with no value.
EveryFailureIsPositionedError ==
    parsed.kind \notin {"none", "ok"} =>
        /\ parsed.kind = "err"
        /\ parsed.pos >= 0
        /\ parsed.pos <= Len(input)
        /\ parsed.message \in ParseErrorReasons
        /\ parsed.val = None

\* A cursor the step started at p may be left at.
CursorAfter(r, p) == r.pos >= p /\ r.pos <= Len(input)

\* C15: the cursor starts at 0 and every parser step, started with the
\* cursor anywhere in 0..len(input), leaves it where it was or further on
\* and never past the end, whether the step succeeds or fails.
CursorStaysInRange ==
    (parsed.kind # "none" /\ looked_up = NotLooked /\ reparsed = NotParsed) =>
        /\ parsed = parse(input)
        /\ CursorAfter(parsed, 0)
        /\ \A p \in 0..Len(input) :
              /\ CursorAfter(advance(input, p), p)
              /\ CursorAfter(expect(input, p, Ascii["\""]), p)
              /\ CursorAfter(expect(input, p, Ascii[":"]), p)
              /\ skip_whitespace(input, p) >= p
              /\ skip_whitespace(input, p) <= Len(input)
              /\ CursorAfter(consume_digits(input, p), p)
              /\ CursorAfter(parse_number(input, p), p)
              /\ CursorAfter(parse_bool(input, p), p)
              /\ CursorAfter(parse_null(input, p), p)
              /\ CursorAfter(parse_unicode_escape(input, p), p)
              /\ CursorAfter(parse_string(input, p), p)
              /\ CursorAfter(parse_array(input, p), p)
              /\ CursorAfter(parse_object(input, p), p)
              /\ CursorAfter(parse_value(input, p), p)

\* C15 witness: a string cut off inside an escape left the cursor at the end.
CursorAtEndOfTruncated ==
    /\ input = Quote \o Bytes(<<"a", "\\", "u", "D", "8">>)
    /\ parsed.kind = "err"
    /\ parsed.pos = Len(input)

\* The value of a lowercase hexadecimal digit given as a character code,
\* and -1 for any other character.
LowerHexValue(c) ==
    IF c \in 48..57 THEN c - 48
    ELSE IF c \in 97..102 THEN c - 87
    ELSE -1

\* C16: once generate_state has succeeded, the CSRF token is exactly 32
\* characters, each in 0-9 or a-f, and its i-th pair of characters is the
\* two-digit lowercase hexadecimal numeral of the i-th of the 16 bytes read
\* from the entropy source.
StateIsHexOfEntropy ==
    state # <<>> =>
        /\ Len(state) = 32
        /\ \A i \in 1..32 : LowerHexValue(state[i]) >= 0
        /\ \E buf \in EntropySamples :
              \A i \in 1..16 :
                  16 * LowerHexValue(state[2 * i - 1])
                      + LowerHexValue(state[2 * i]) = buf[i]

\* A token was generated from bytes that include values below 16, whose
\* numeral needs the padding zero.
PaddedStateGenerated ==
    /\ pc = "build_tls"
    /\ Len(state) = 32
    /\ \E i \in 1..16 : state[2 * i - 1] = 48 /\ state[2 * i] # 48

---------------------------------------------------------------------------
(* Properties of message.rs, checked under SpecApi.  They are stated over  *)
(* what the response body was written from, not over the accessors.        *)

\* part occurs in text.
Contains(text, part) ==
    \E i \in 0..(Len(text) - Len(part)) : SubSeq(text, i + 1, i + Len(part)) = part

\* The text of a member that is a string is in the error message.
Surfaced(f) == f.is = "string" => Contains(extracted.detail, f.s)

\* C17: for a response whose top-level "ok" is false, each of
\* extract_messages, extract_conversations and resolve_user_name returns an
\* error whose message contains the "error" string and, when they are
\* strings, the "needed" and "provided" strings, and returns no messages,
\* conversations or name; a response without a boolean "ok" is an error too.
ApiErrorsSurfaced ==
    called # "none" =>
        /\ raw_json.ok = "false" =>
              /\ extracted.kind = "err"
              /\ extracted.val = <<>>
              /\ Surfaced(raw_json.error)
              /\ Surfaced(raw_json.needed)
              /\ Surfaced(raw_json.provided)
        /\ raw_json.ok \notin {"true", "false"} =>
              extracted.kind = "err" /\ extracted.val = <<>>

\* C17 witness: a users.info response with "ok" false that carries a user and
\* the three strings was refused with all of them in the message.
MissingScopeRefused ==
    /\ called = "resolve_user_name"
    /\ raw_json.ok = "false"
    /\ raw_json.user.is = "object"
    /\ raw_json.error.is = "string"
    /\ raw_json.needed.is = "string"
    /\ raw_json.provided.is = "string"
    /\ extracted.kind = "err"
    /\ Contains(extracted.detail, raw_json.needed.s \o ProvidedScopes)

\* The string of the first of the members that is one, else default.
FirstString(members, default) ==
    IF \E i \in 1..Len(members) : members[i].is = "string"
    THEN members[CHOOSE i \in 1..Len(members) :
                     /\ members[i].is = "string"
                     /\ \A j \in 1..(i - 1) : members[j].is # "string"].s
    ELSE default

\* C18: extract_messages returns one entry per element of the messages
\* array, in the same order; an entry's user is the first of user, username,
\* bot_id that is a string and "unknown" when none is, its text is the text
\* member or the empty string, its ts the ts member or "0".
MessagesExtractedInOrder ==
    (called = "extract_messages" /\ raw_json.ok = "true"
        /\ raw_json.messages.is = "array") =>
        /\ extracted.kind = "ok"
        /\ Len(extracted.val) = Len(raw_json.messages.items)
        /\ \A i \in 1..Len(raw_json.messages.items) :
              /\ extracted.val[i].user =
                     FirstString(<<raw_json.messages.items[i].user,
                                   raw_json.messages.items[i].username,
                                   raw_json.messages.items[i].bot_id>>,
                                 Bytes(<<"u", "n", "k", "n", "o", "w", "n">>))
              /\ extracted.val[i].text =
                     FirstString(<<raw_json.messages.items[i].text>>, <<>>)
              /\ extracted.val[i].ts =
                     FirstString(<<raw_json.messages.items[i].ts>>, Bytes(<<"0">>))

\* C18 witness: two messages were extracted, the first named by its bot_id
\* because user is null and username absent, the second with no name at all.
FallbacksExtracted ==
    /\ called = "extract_messages"
    /\ extracted.kind = "ok"
    /\ Len(extracted.val) = 2
    /\ raw_json.messages.items[1].user.is = "other"
    /\ raw_json.messages.items[1].username.is = "absent"
    /\ extracted.val[1].user = Bytes(<<"B", "7">>)
    /\ extracted.val[2].user = Bytes(<<"u", "n", "k", "n", "o", "w", "n">>)
    /\ extracted.val[2].ts = Bytes(<<"0">>)

---------------------------------------------------------------------------
(* Properties of url.rs, checked under SpecUrl.  They are stated over the  *)
(* segments the URL was written from, counted in characters.               *)

\* A segment that starts with p and has more than 10 characters after it.
IsTimestamp(seg) == Len(seg) > 11 /\ seg[1] = Ascii["p"]

\* Where the URL has archives, a channel segment and such a timestamp.
ThreadPositions ==
    {i \in 1..(Len(slack_url.segments) - 2) :
        /\ slack_url.segments[i] = Archives
        /\ IsTimestamp(slack_url.segments[i + 2])}

\* The thread the segments at i, i + 1 and i + 2 name: the channel, and the
\* first 10 characters after p, a '.', and the remaining characters.
ThreadAt(i) ==
    [channel_id |-> slack_url.segments[i + 1],
     ts |-> SubSeq(slack_url.segments[i + 2], 2, 11) \o Bytes(<<".">>)
            \o SubSeq(slack_url.segments[i + 2], 12, Len(slack_url.segments[i + 2]))]

\* C19: parse_slack_url succeeds only for a URL with a segment archives
\* followed by a channel segment and a timestamp segment that starts with p
\* and has more than 10 characters after it, and then returns that channel
\* and the timestamp with a '.' after its tenth character; a URL without
\* archives, without a timestamp segment, without the p or with 10 or fewer
\* characters after it is an error.
ParseSlackUrlByCharacters ==
    thread # NoResult =>
        /\ thread.kind = "ok" => \E i \in ThreadPositions : thread.val = ThreadAt(i)
        /\ ThreadPositions = {} => thread.kind = "err"

---------------------------------------------------------------------------
(* Properties of config.rs, checked under SpecConfig.                      *)

\* A non-empty token without leading or trailing whitespace.
CleanToken(t) ==
    t # <<>> /\ ~IsWhitespace(t[1]) /\ ~IsWhitespace(t[Len(t)])

\* The file holds the bytes of a text that is whitespace only.
HoldsOnlyWhitespace(file) ==
    /\ file.exists
    /\ \E t \in Tokens :
          /\ file.content = as_bytes(t)
          /\ \A i \in 1..Len(t) : IsWhitespace(t[i])

\* C20: after save_token(t) has returned Ok the credentials file has mode
\* 0600, and a load_token that follows returns Some(t) if t is non-empty and
\* has no leading or trailing whitespace; load_token returns None when the
\* credentials file does not exist or holds only whitespace.
SavedTokenIsLoaded ==
    /\ (last_op \in {"save", "load_after_save"} /\ saved.result.kind = "ok") =>
          /\ credentials.exists
          /\ credentials.mode = 6 * 64
          /\ credentials.content = as_bytes(saved.token)
    /\ (last_op = "load_after_save" /\ saved.result.kind = "ok"
            /\ CleanToken(saved.token)) =>
          loaded = Ok(Some(saved.token))
    /\ (last_op \in {"load", "load_after_save"} /\ credentials.home
            /\ (~credentials.exists \/ HoldsOnlyWhitespace(credentials))) =>
          loaded = Ok(Nothing)

\* C20 witness: a token of a character of several bytes was saved, the file
\* has mode 0600 and the load that followed returned the token.
TokenSavedAndLoaded ==
    /\ last_op = "load_after_save"
    /\ saved.result.kind = "ok"
    /\ saved.token = <<\hE9>>
    /\ credentials.mode = Mode0600
    /\ loaded = Ok(Some(<<\hE9>>))

---------------------------------------------------------------------------
(* Properties of run_login, checked under Spec.                            *)

LoadFailures ==
    {"HOME environment variable is not set",
     "client_id and client_secret are required. Set SLK_CLIENT_ID/SLK_CLIENT_SECRET or create ~/.config/slk/config.json",
     "JSON parse error at position {}: {}",
     "missing 'client_id' in config.json",
     "missing 'client_secret' in config.json"}

IdentityFailures ==
    {"failed to open /dev/urandom: {}", "failed to read /dev/urandom: {}",
     "failed to generate key pair: {}", "failed to create cert params: {}",
     "failed to generate self-signed cert: {}", "failed to build TLS config: {}"}

AcceptFailures ==
    {"failed to accept connection: {}", "failed to create TLS connection: {}"}

\* C21: a failure of credential loading, token generation, TLS identity
\* generation, binding, accepting, parameter extraction, the state check or
\* the code exchange ends run_login with that error: no later step has run,
\* save_token was not called and the credentials file is as it was.
\* save_token is called once, with the token the exchange returned, and only
\* after every earlier step succeeded.
LoginStepsAreTerminal ==
    /\ result.kind = "err" =>
          /\ pc = "done"
          /\ saved = NoSave /\ ops = 0
          /\ run_login(result, saved) = result
          /\ result.message \in LoadFailures =>
                state = <<>> /\ ~browser /\ listener = "unbound" /\ curl = NoCurl
          /\ result.message \in IdentityFailures =>
                ~browser /\ listener = "unbound" /\ client = NoClient /\ curl = NoCurl
          /\ result.message = "failed to bind port 9876: {}" =>
                listener = "unbound" /\ client = NoClient /\ curl = NoCurl
          /\ result.message \in AcceptFailures =>
                request = <<>> /\ params = NoResult /\ curl = NoCurl
          /\ (params.kind = "err" \/ (params.kind = "ok" /\ params.val[2] # state)) =>
                curl = NoCurl /\ exchanged = <<>>
    /\ saved = NoSave => credentials = StoredCredentials /\ ops = 0
    /\ saved # NoSave =>
          /\ pc = "returned" /\ ops = 1
          /\ state # <<>> /\ listener = "closed" /\ request # <<>>
          /\ params.kind = "ok" /\ params.val[2] = state
          /\ exchanged = <<params.val[1]>>
          /\ curl.run = "exited_ok" /\ curl.json /\ curl.ok = "true"
          /\ curl.token.some
          /\ saved.token = curl.token.v

\* C21 witness: the login went through and the token of the exchange
\* replaced the stored one.
LoginTokenStored ==
    /\ pc = "returned"
    /\ saved.result.kind = "ok"
    /\ curl.token.some
    /\ credentials.content = as_bytes(curl.token.v)
    /\ credentials # StoredCredentials
    /\ run_login(result, saved) = Ok("Token saved to {}")

\* C22 as stated: a connection was sent the "Authorization successful!" page
\* only if the request read from it carried a code and a state whose value
\* is the token of this attempt.
SuccessPageOnlyForValidCallback ==
    responded # <<>> =>
        /\ NamedWithValue(client, NameCode) # {}
        /\ \E i \in NamedWithValue(client, NameState) :
              client.params[i].value = state

\* C23 as stated: a string literal without escapes parses to the characters
\* written between its quotes, a character of several UTF-8 bytes being one
\* character of the result.
LiteralReturnedAsWritten ==
    (label.kind = "utf8" /\ parsed.kind # "none") =>
        /\ parsed.kind = "ok"
        /\ parsed.val = JString(label.chars)

\* The escapes of one byte parse_string has an arm for, and the character
\* each stands for.
SimpleEscapes ==
    { <<Ascii["\""], \h22>>, <<Ascii["\\"], \h5C>>, <<Ascii["/"], \h2F>>,
      <<Ascii["n"], \h0A>>, <<Ascii["r"], \h0D>>, <<Ascii["t"], \h09>> }

IsHexByte(b) ==
    \/ b >= Ascii["0"] /\ b <= Ascii["9"]
    \/ b >= Ascii["a"] /\ b <= Ascii["f"]
    \/ b >= Ascii["A"] /\ b <= Ascii["F"]

\* C24: a backslash before one of the bytes " \ / n r t yields the
\* character it stands for, and before any other byte but u (b and f among
\* them) the invalid-escape error; after \u, fewer than four hex digits or a
\* byte that is no hex digit is an error, and four hex digits are accepted;
\* a string without its closing quote is an error.
EscapesAcceptedOrRejected ==
    parsed.kind # "none" =>
        /\ label.kind = "escape" =>
              /\ \A e \in SimpleEscapes :
                    label.follower = e[1] =>
                        parsed.kind = "ok" /\ parsed.val = JString(<<e[2]>>)
              /\ (\A e \in SimpleEscapes : label.follower # e[1]) =>
                    /\ parsed.kind = "err"
                    /\ parsed.message = "invalid escape"
                    /\ parsed.val = None
        /\ label.kind = "hex" =>
              IF Len(label.digits) = 4
                 /\ \A i \in 1..4 : IsHexByte(label.digits[i])
              THEN IF label.closed
                   THEN parsed.kind = "ok" /\ Len(parsed.val.s) = 1
                   ELSE parsed.kind = "err"
                        /\ parsed.message = "unexpected end of input"
              ELSE /\ parsed.kind = "err"
                   /\ parsed.message \in {"invalid unicode escape hex digit",
                                          "unexpected end of input"}
        /\ label.kind = "open" =>
              /\ parsed.kind = "err"
              /\ parsed.message = "unexpected end of input"

\* C24 witness: the escape \b was refused.
BackspaceEscapeRefused ==
    /\ label.kind = "escape"
    /\ label.follower = Ascii["b"]
    /\ parsed.kind = "err"
    /\ parsed.message = "invalid escape"

\* The number forms of the specification, as predicates on a whole text: a
\* run of digits, an integer, an integer with an optional fraction, and the
\* latter with an optional exponent.
AllDigits(t) == t # <<>> /\ \A i \in 1..Len(t) : IsDigit(t[i])

IntegerForm(t) ==
    \/ AllDigits(t)
    \/ t # <<>> /\ t[1] = Ascii["-"] /\ AllDigits(Tail(t))

FractionForm(t) ==
    \/ IntegerForm(t)
    \/ \E k \in 1..Len(t) :
          /\ t[k] = Ascii["."]
          /\ IntegerForm(SubSeq(t, 1, k - 1))
          /\ AllDigits(SubSeq(t, k + 1, Len(t)))

ExponentForm(t) ==
    \/ AllDigits(t)
    \/ t # <<>> /\ t[1] \in {Ascii["+"], Ascii["-"]} /\ AllDigits(Tail(t))

NumberForm(t) ==
    \/ FractionForm(t)
    \/ \E k \in 1..Len(t) :
          /\ t[k] \in {Ascii["e"], Ascii["E"]}
          /\ FractionForm(SubSeq(t, 1, k - 1))
          /\ ExponentForm(SubSeq(t, k + 1, Len(t)))

\* t stops where a run of digits has to start: after the sign, after the
\* '.' of a fraction, after the e or E of an exponent or after its sign.
DigitRunMissing(t) ==
    \/ t = Bytes(<<"-">>)
    \/ t # <<>> /\ t[Len(t)] = Ascii["."] /\ IntegerForm(SubSeq(t, 1, Len(t) - 1))
    \/ t # <<>> /\ t[Len(t)] \in {Ascii["e"], Ascii["E"]}
         /\ FractionForm(SubSeq(t, 1, Len(t) - 1))
    \/ Len(t) > 1 /\ t[Len(t)] \in {Ascii["+"], Ascii["-"]}
         /\ t[Len(t) - 1] \in {Ascii["e"], Ascii["E"]}
         /\ FractionForm(SubSeq(t, 1, Len(t) - 2))

\* The lengths of the prefixes of t after which a digit is missing: t ends
\* there, or the next byte is no digit (and not the sign of the exponent).
MissingDigitAt(t) ==
    { n \in 1..Len(t) :
        /\ DigitRunMissing(SubSeq(t, 1, n))
        /\ n < Len(t) =>
              /\ ~IsDigit(t[n + 1])
              /\ t[n] \in {Ascii["e"], Ascii["E"]} =>
                    t[n + 1] \notin {Ascii["+"], Ascii["-"]} }

\* The length of the longest prefix of t that is a number.
LongestNumber(t) ==
    CHOOSE n \in 0..Len(t) :
        /\ n > 0 => NumberForm(SubSeq(t, 1, n))
        /\ \A m \in (n + 1)..Len(t) : ~NumberForm(SubSeq(t, 1, m))

\* C25: a text that starts with '-' or a digit is read as the longest prefix
\* of the number form, the parse stops right after it (the whole text is the
\* number, or what follows is trailing content at that offset), and where a
\* run of digits is empty the parse fails with 'expected digit' at that
\* place; a text that starts with '+' or '.' is an unexpected character.
NumberIsLongestPrefix ==
    (label.kind = "number" /\ parsed.kind # "none") =>
        IF ~(input[1] = Ascii["-"] \/ IsDigit(input[1]))
        THEN parsed = PErr(0, "unexpected character")
        ELSE IF MissingDigitAt(input) # {}
        THEN \E n \in MissingDigitAt(input) : parsed = PErr(n, "expected digit")
        ELSE IF LongestNumber(input) = Len(input)
        THEN parsed = POk(Len(input), JNumber(input))
        ELSE parsed = PErr(LongestNumber(input), "unexpected trailing content")

\* C25 witness: the exponent of "-07.5e+" has a sign and no digit.
ExponentWithoutDigits ==
    /\ label.kind = "number"
    /\ input = Bytes(<<"-", "0", "7", ".", "5", "e", "+">>)
    /\ parsed = PErr(7, "expected digit")

\* The parse taken loop by loop ends where json::parse ends: the same
\* outcome at the same offset with the same reason.
StepsAgreeWithParse ==
    (parser.status \notin {"none", "running"} /\ input \notin NestedTexts) =>
        /\ parser.status = parse(input).kind
        /\ parser.pos = parse(input).pos
        /\ parser.message = parse(input).message

\* The frames of the loops and of what runs between the calls of a loop's
\* body; "value", "object_open", "array_open" and "end" are run once per call.
LoopFrames ==
    { "ws", "string", "hex", "digits_int", "digits_frac", "digits_exp", "object_key",
      "object_colon", "object_sep", "array_sep" }

\* A step in a loop moves the cursor forward, or the loop is left: it
\* returns to its caller or the parse ends.
AdvancesOrReturns ==
    (parser.status = "running" /\ Head(parser.frames) \in LoopFrames) =>
        \/ parser'.pos > parser.pos
        \/ parser'.status # "running"
        \/ parser'.frames = Tail(parser.frames)

\* C26: every parse ends; a step in a loop advances the cursor or leaves the
\* loop; the cursor never moves back; and the steps taken are at most four
\* for each byte of the input and four more.
ParseTerminates ==
    /\ <>(parser.status \in {"ok", "err", "panic"})
    /\ [][AdvancesOrReturns /\ parser'.pos >= parser.pos]_vars
    /\ [](parser.steps <= 4 * Len(input) + 4)

\* C26 witness: the parse of a text of 31 bytes with an array inside an
\* object ended with Ok after more steps than bytes.
NestedParseEnded ==
    /\ Len(input) = 31
    /\ parser.status = "ok"
    /\ parser.pos = 31
    /\ parser.steps > 31

\* The 0-based index of the first byte after "\u" that is no hex digit: one
\* of the digits written, or the closing quote after fewer than four.
FirstNonHex(ds) ==
    IF \E i \in 1..Len(ds) : ~IsHexByte(ds[i])
    THEN 2 + CHOOSE i \in 1..Len(ds) :
                 /\ ~IsHexByte(ds[i])
                 /\ \A j \in 1..(i - 1) : IsHexByte(ds[j])
    ELSE 3 + Len(ds)

\* C27 as stated: the offset of a parse error is the index of the byte that
\* caused it, or the length of the input when the input ended too early:
\* the byte after the backslash of an invalid escape, the first byte that is
\* no hex digit, the byte that is no digit or trails the value.
ErrorOffsetIsOffendingByte ==
    parsed.kind = "err" =>
        /\ parsed.message = "unexpected end of input" => parsed.pos = Len(input)
        /\ (label.kind = "escape" /\ parsed.message = "invalid escape") =>
              parsed.pos = 2
        /\ (label.kind = "hex"
            /\ parsed.message = "invalid unicode escape hex digit") =>
              parsed.pos = FirstNonHex(label.digits)
        /\ (label.kind = "number"
            /\ parsed.message \in {"expected digit", "unexpected character",
                                   "unexpected trailing content"}) =>
              /\ parsed.pos < Len(input) => ~IsDigit(input[parsed.pos + 1])
              /\ NumberForm(SubSeq(input, 1, parsed.pos))
                 \/ DigitRunMissing(SubSeq(input, 1, parsed.pos))
                 \/ parsed.pos = 0

---------------------------------------------------------------------------
(* The timestamp parse_slack_url returns, checked under SpecUrl.           *)

\* C28 as stated: parse_slack_url returns Ok or Err and never aborts, and
\* the ts of an Ok is 10 decimal digits, a '.', and one or more decimal
\* digits.
TimestampIsDecimal ==
    thread # NoResult =>
        /\ thread.kind \in {"ok", "err"}
        /\ thread.kind = "ok" =>
              /\ Len(thread.val.ts) >= 12
              /\ thread.val.ts[11] = Ascii["."]
              /\ \A i \in 1..Len(thread.val.ts) :
                    i # 11 => IsDigit(thread.val.ts[i])

---------------------------------------------------------------------------
(* Properties of format_unix_ts, checked under SpecTime.  The calendar is  *)
(* written from its rules: the days of each month and the leap years.      *)

IsLeapYear(yr) == yr % 4 = 0 /\ (yr % 100 # 0 \/ yr % 400 = 0)

DaysInMonth(yr, mo) ==
    IF mo = 2 THEN (IF IsLeapYear(yr) THEN 29 ELSE 28)
    ELSE IF mo \in {4, 6, 9, 11} THEN 30
    ELSE 31

\* The leap years among the years 1..n.
LeapYearsUpTo(n) == n \div 4 - n \div 100 + n \div 400

RECURSIVE DaysBeforeMonth(_, _)
DaysBeforeMonth(yr, mo) ==
    IF mo = 1 THEN 0 ELSE DaysBeforeMonth(yr, mo - 1) + DaysInMonth(yr, mo - 1)

\* The days from 1970-01-01 to the day dy of the month mo of the year yr.
DaysFromCivil(yr, mo, dy) ==
    365 * (yr - 1970) + LeapYearsUpTo(yr - 1) - LeapYearsUpTo(1969)
    + DaysBeforeMonth(yr, mo) + dy - 1

\* The number a text of digits writes.
RECURSIVE NumberOf(_)
NumberOf(ds) ==
    IF ds = <<>> THEN 0
    ELSE NumberOf(SubSeq(ds, 1, Len(ds) - 1)) * 10 + (ds[Len(ds)] - Ascii["0"])

\* t has the shape YYYY-MM-DD HH:MM:SS.
HasCivilShape(t) ==
    /\ Len(t) = 19
    /\ t[5] = Ascii["-"] /\ t[8] = Ascii["-"] /\ t[11] = Ascii[" "]
    /\ t[14] = Ascii[":"] /\ t[17] = Ascii[":"]
    /\ \A i \in (1..19) \ {5, 8, 11, 14, 17} : IsDigit(t[i])

\* t is the civil date and time of the second tod of the day days, with
\* every field in its range.
IsCivilTimeOf(t, days, tod) ==
    /\ HasCivilShape(t)
    /\ NumberOf(SubSeq(t, 6, 7)) \in 1..12
    /\ NumberOf(SubSeq(t, 9, 10))
          \in 1..DaysInMonth(NumberOf(SubSeq(t, 1, 4)), NumberOf(SubSeq(t, 6, 7)))
    /\ NumberOf(SubSeq(t, 12, 13)) \in 0..23
    /\ NumberOf(SubSeq(t, 15, 16)) \in 0..59
    /\ NumberOf(SubSeq(t, 18, 19)) \in 0..59
    /\ DaysFromCivil(NumberOf(SubSeq(t, 1, 4)), NumberOf(SubSeq(t, 6, 7)),
                     NumberOf(SubSeq(t, 9, 10))) = days
    /\ NumberOf(SubSeq(t, 12, 13)) * 3600 + NumberOf(SubSeq(t, 15, 16)) * 60
       + NumberOf(SubSeq(t, 18, 19)) = tod

Epoch ==
    Bytes(<<"1", "9", "7", "0", "-", "0", "1", "-", "0", "1", " ",
            "0", "0", ":", "0", "0", ":", "0", "0">>)

\* C29 as stated: for every whole number of seconds s >= 0 before the first
\* '.', the result is the civil date and time of s as YYYY-MM-DD HH:MM:SS
\* (so not that of second 0 when s is beyond the range of i64), and a
\* seconds part that is no number gives 1970-01-01 00:00:00.
FormatsEveryWholeSecond ==
    formatted # NoResult =>
        /\ unix_ts.kind = "seconds" =>
              IsCivilTimeOf(formatted.val, unix_ts.days, unix_ts.tod)
        /\ unix_ts.kind = "too_large" =>
              HasCivilShape(formatted.val) /\ formatted.val # Epoch
        /\ unix_ts.kind = "nonnumeric" => formatted.val = Epoch

\* The last day with a year of four digits, 9999-12-31.
LastDayOfYear9999 == DaysFromCivil(9999, 12, 31)

\* C29 amended: for a whole number of seconds s, 0 <= s <= 253402300799
\* (the end of the year 9999), the result is the civil date and time of s as
\* YYYY-MM-DD HH:MM:SS with every field in its range, whatever follows the
\* first '.'; a seconds part that i64 parsing refuses, be it no number or a
\* whole number above i64::MAX, gives 1970-01-01 00:00:00.
FormatsSecondsToYear9999 ==
    formatted # NoResult =>
        /\ formatted.kind = "ok"
        /\ (unix_ts.kind = "seconds" /\ unix_ts.days <= LastDayOfYear9999) =>
              IsCivilTimeOf(formatted.val, unix_ts.days, unix_ts.tod)
        /\ unix_ts.kind \in {"nonnumeric", "too_large"} => formatted.val = Epoch

\* C29 witness: second 951782400.565249 was formatted as the leap day of the
\* year 2000.
LeapDayFormatted ==
    /\ unix_ts.kind = "seconds"
    /\ unix_ts.text = Bytes(<<"9", "5", "1", "7", "8", "2", "4", "0", "0", ".",
                              "5", "6", "5", "2", "4", "9">>)
    /\ formatted.val = Bytes(<<"2", "0", "0", "0", "-", "0", "2", "-", "2", "9",
                               " ", "0", "0", ":", "0", "0", ":", "0", "0">>)

=========================================================================
